---- MODULE Spec2Model ----
(***************************************************************************)
(* Balance reconstruction (snapshot + replay of balance changes), paged    *)
(* fetching and holder normalisation of the beefy-balances-api.            *)
(*                                                                         *)
(* Amounts are decimal.js values.  A Decimal is modelled as a sign and a   *)
(* little-endian sequence of decimal digits in the smallest unit that the  *)
(* indexer reports, because arithmetic results of decimal.js are rounded   *)
(* to Precision significant digits (ROUND_HALF_UP), while the constructor  *)
(* keeps every digit of its argument.                                      *)
(***************************************************************************)
EXTENDS Integers, Sequences, FiniteSets, TLC, Bags

----------------------------------------------------------------------------
(* Bounds of the model                                                     *)

MaxEvents == 4        \* balance changes the indexer records in one behaviour
MaxSnapshots == 1     \* periodic snapshots the indexer takes in one behaviour
PageSize == 2         \* page size used by paginate (scaled down from 10_000)
MaxRows == 4          \* balances the indexer holds for a normaliser call
MaxPageRows == 4      \* rows of one list of the source that paginate reads
MaxPageSize == 2      \* largest page size given to paginate
MaxCeiling == 4       \* largest small fetch ceiling given to paginate
MaxCached == 2        \* entries of the cache alive at a time
MaxPending == 2       \* requests whose handlers wait at a time
MaxCalls == 3         \* calls of the normaliser in one behaviour of repeated calls
MaxMoved == 1         \* changes of the source while one call fetches its pages
MaxBlock == 2         \* last block the indexer processes, and last target block of a call
MaxEntryRows == 2     \* balances the indexer holds for a call of an entry point

(* Program constants                                                       *)

Precision == 20              \* decimal.js default number of significant digits
FetchAtMost == 1000000000    \* paginate: default total-fetch ceiling
NetworkId == "8453"          \* getNetworkIdFromChainId(chainId) of the chain

ZeroAddress == "0x0"

----------------------------------------------------------------------------
(* Strings: toLowerCase                                                    *)

\* String.prototype.toLowerCase: every character of the string, in order
RECURSIVE ToLower(_)
ToLower(s) ==
  LET lower(c) ==
        CASE c = "A" -> "a" [] c = "B" -> "b" [] c = "C" -> "c" [] c = "D" -> "d"
          [] c = "E" -> "e" [] c = "F" -> "f" [] c = "G" -> "g" [] c = "H" -> "h"
          [] c = "I" -> "i" [] c = "J" -> "j" [] c = "K" -> "k" [] c = "L" -> "l"
          [] c = "M" -> "m" [] c = "N" -> "n" [] c = "O" -> "o" [] c = "P" -> "p"
          [] c = "Q" -> "q" [] c = "R" -> "r" [] c = "S" -> "s" [] c = "T" -> "t"
          [] c = "U" -> "u" [] c = "V" -> "v" [] c = "W" -> "w" [] c = "X" -> "x"
          [] c = "Y" -> "y" [] c = "Z" -> "z"
          [] OTHER -> c
  IN IF s = "" THEN ""
     ELSE lower(SubSeq(s, 1, 1)) \o ToLower(SubSeq(s, 2, Len(s)))

getTokenId(address) == NetworkId \o "-" \o ToLower(address)

getAccountId(address) == ToLower(address)

Range(s) == {s[i] : i \in 1..Len(s)}

----------------------------------------------------------------------------
(* decimal.js arithmetic                                                   *)

RECURSIVE Zeros(_)
Zeros(n) == IF n <= 0 THEN <<>> ELSE <<0>> \o Zeros(n - 1)

RECURSIVE StripMag(_)
StripMag(m) == IF m = <<>> THEN <<>>
               ELSE IF m[Len(m)] = 0 THEN StripMag(SubSeq(m, 1, Len(m) - 1))
               ELSE m

RECURSIVE AddMag(_, _, _)
AddMag(a, b, c) ==
  IF a = <<>> /\ b = <<>> THEN (IF c = 0 THEN <<>> ELSE <<c>>)
  ELSE LET da == IF a = <<>> THEN 0 ELSE Head(a)
           db == IF b = <<>> THEN 0 ELSE Head(b)
           s  == da + db + c
       IN <<s % 10>> \o AddMag(IF a = <<>> THEN a ELSE Tail(a),
                               IF b = <<>> THEN b ELSE Tail(b), s \div 10)

RECURSIVE SubMagRaw(_, _, _)
SubMagRaw(a, b, br) ==
  IF a = <<>> THEN <<>>
  ELSE LET db == IF b = <<>> THEN 0 ELSE Head(b)
           d  == Head(a) - db - br
       IN <<(d + 10) % 10>> \o SubMagRaw(Tail(a), IF b = <<>> THEN b ELSE Tail(b),
                                         IF d < 0 THEN 1 ELSE 0)

SubMag(a, b) == StripMag(SubMagRaw(a, b, 0))

RECURSIVE CmpMagFrom(_, _, _)
CmpMagFrom(a, b, i) == IF i = 0 THEN 0
                       ELSE IF a[i] > b[i] THEN 1
                       ELSE IF a[i] < b[i] THEN -1
                       ELSE CmpMagFrom(a, b, i - 1)

CmpMag(a, b) == IF Len(a) > Len(b) THEN 1
                ELSE IF Len(a) < Len(b) THEN -1
                ELSE CmpMagFrom(a, b, Len(a))

\* new Decimal(v): every digit is kept
Dec(s, m) == [s |-> IF m = <<>> THEN 1 ELSE s, m |-> m]

DZero == Dec(1, <<>>)

RECURSIVE NatMag(_)
NatMag(n) == IF n = 0 THEN <<>> ELSE <<n % 10>> \o NatMag(n \div 10)

DecOf(n) == IF n < 0 THEN Dec(-1, NatMag(-n)) ELSE Dec(1, NatMag(n))

Negate(x) == Dec(-x.s, x.m)

\* the mathematical sum of two decimals
ExactPlus(x, y) ==
  IF x.s = y.s THEN Dec(x.s, AddMag(x.m, y.m, 0))
  ELSE IF CmpMag(x.m, y.m) >= 0 THEN Dec(x.s, SubMag(x.m, y.m))
  ELSE Dec(y.s, SubMag(y.m, x.m))

\* rounding of a magnitude to Precision significant digits, half up
RoundMag(m) ==
  IF Len(m) <= Precision THEN m
  ELSE LET k    == Len(m) - Precision
           kept == SubSeq(m, k + 1, Len(m))
       IN Zeros(k) \o (IF m[k] >= 5 THEN AddMag(kept, <<1>>, 0) ELSE kept)

finalise(x) == Dec(x.s, RoundMag(x.m))

plus(x, y) == finalise(ExactPlus(x, y))

minus(x, y) == finalise(ExactPlus(x, Negate(y)))

\* 10^20: the smallest amount with more than Precision digits
Big == Dec(1, Zeros(Precision) \o <<1>>)

----------------------------------------------------------------------------
VARIABLES
  \* the external indexing service
  height,            \* last block processed by the indexer (progressBlock)
  chainBal,          \* current balance of every (token id, account id)
  srcChanges,        \* TokenBalanceChange rows, in the order of the source
  srcSnapshots,      \* TokenBalanceSnapshot rows, in the order of the source
  \* one call of getTokenBalancesAtBlock
  pc,                \* position of the call
  req,               \* targetBlock, tokenIn, accountNotIn
  pg,                \* paginate: offset, fetched, results
  rejected,          \* the request of the call that the source rejected
  lastSnapshotRes,   \* answer of TokenBalanceSnapshotLastDailySnapshotAtBlock
  tokenMetadata,
  lastSnapshotBlock,
  balanceSnapshots,  \* merged snapshot rows
  changesMerged,     \* merged change rows
  balances,          \* token id -> account id -> Decimal, keyed by the pair
  outcome,
  \* the balances of the indexing service at the block of a normaliser call
  srcTokenBalance,   \* TokenBalance rows of the source
  srcToken,          \* Token rows of the source
  srcProgress,       \* progressBlock of the _meta of the source
  srcLastChange,     \* TokenBalance row -> block of its last change
  \* one call of _getVaultHoldersAsBaseVaultEquivalent
  normCall,          \* the arguments of the call and of its getTokenBalancesAtBlock
  normPc,            \* where the call stands: idle, config, paging, over
  normPg,            \* paginate of BalanceAtBlock: offset, fetched, results
  normLocals,        \* vaultManagerShareBalance, vaultTotalSupply, holder lists
  normResult,        \* mergedHolders
  normOutcome,
  normLookup,        \* the vault identity given to an entry point
  normFetches,       \* calls of getTokenBalancesAtBlock by the normaliser
  pagCall,           \* the arguments of a call of paginate on its own
  pagLocals,         \* its locals: results, offset, fetched
  pagPc,             \* where the call stands
  pagRes,            \* the value it returned
  pagLog,            \* the page requests it issued, in order
  globalSdk,         \* the module-level client of sdk.ts
  normHistory,       \* the calls of the normaliser that are over, as a bag
  normOther,         \* a second call of the normaliser in flight in the process
  cacheStore,        \* the process-wide cache of the routes: key -> value
  httpReply,         \* the last reply of a route
  httpPending        \* the requests whose handler awaits the value of its function

vars == <<height, chainBal, srcChanges, srcSnapshots, pc, req, pg, rejected, lastSnapshotRes,
          tokenMetadata, lastSnapshotBlock, balanceSnapshots, changesMerged,
          balances, outcome, srcTokenBalance, srcToken, srcProgress, srcLastChange,
          normCall, normPc, normPg, normLocals,
          normResult, normOutcome, normLookup, normFetches, pagCall, pagLocals,
          pagPc, pagRes, pagLog, globalSdk, normHistory, normOther, cacheStore, httpReply, httpPending>>

sessionVars == <<globalSdk, normHistory, cacheStore, httpReply, httpPending>>

pagVars == <<pagCall, pagLocals, pagPc, pagRes, pagLog>>

normVars == <<srcTokenBalance, srcToken, srcProgress, srcLastChange, normCall, normPc, normPg, normOther, normLocals, normResult, normOutcome,
              normLookup, normFetches>>

reconVars == <<height, chainBal, srcChanges, srcSnapshots, pc, req, pg, rejected, lastSnapshotRes,
               tokenMetadata, lastSnapshotBlock, balanceSnapshots, changesMerged,
               balances, outcome>>

srcVars == <<height, chainBal, srcChanges, srcSnapshots>>

balVars == <<srcTokenBalance, srcToken, srcProgress, srcLastChange>>

----------------------------------------------------------------------------
(* The external indexing service                                           *)

SrcTokenAddrs == <<"t1", "t2">>

SrcAccounts == <<"a1", "a2", ZeroAddress>>

\* Token rows of the source
SrcTokens == [i \in 1..Len(SrcTokenAddrs) |->
                [id |-> getTokenId(SrcTokenAddrs[i]), address |-> SrcTokenAddrs[i],
                 name |-> "n", symbol |-> "s", decimals |-> 18]]

SrcPairs == [i \in 1..(Len(SrcTokenAddrs) * Len(SrcAccounts)) |->
               <<getTokenId(SrcTokenAddrs[((i - 1) \div Len(SrcAccounts)) + 1]),
                 SrcAccounts[((i - 1) % Len(SrcAccounts)) + 1]>>]

\* balance changes that happen on the chain: token, account, signed amount
ChainMoves == { <<"t1", "a1", Big>>, <<"t1", "a1", DecOf(5)>>, <<"t1", "a1", DecOf(-4)>>,
                <<"t1", "a2", DecOf(5)>>, <<"t1", ZeroAddress, DecOf(5)>>,
                <<"t2", "a1", DecOf(5)>> }

\* the indexer processes one block holding one balance change
IndexChange(t, a, d) ==
  LET p     == <<getTokenId(t), a>>
      after == ExactPlus(chainBal[p], d)
  IN /\ pc = "idle"
     /\ height < MaxEvents
     /\ after.s = 1
     /\ height' = height + 1
     /\ chainBal' = [chainBal EXCEPT ![p] = after]
     /\ srcChanges' = Append(srcChanges,
                        [token_id |-> p[1], account_id |-> p[2], block |-> height + 1,
                         balanceBefore |-> chainBal[p], balanceAfter |-> after])
     /\ UNCHANGED <<sessionVars, pagVars, normVars, srcSnapshots, pc, req, pg, rejected, lastSnapshotRes, tokenMetadata,
                    lastSnapshotBlock, balanceSnapshots, changesMerged, balances,
                    outcome>>

SnapshotBlocks == {srcSnapshots[i].blockNumber : i \in 1..Len(srcSnapshots)}

SnapshotRowsNow ==
  LET held == SelectSeq(SrcPairs, LAMBDA p : chainBal[p] # DZero)
  IN [i \in 1..Len(held) |->
        [token_id |-> held[i][1], account_id |-> held[i][2], blockNumber |-> height,
         amount |-> chainBal[held[i]]]]

\* the indexer takes its periodic snapshot of every non-zero balance
IndexSnapshot ==
  /\ pc = "idle"
  /\ height \notin SnapshotBlocks
  /\ Cardinality(SnapshotBlocks) < MaxSnapshots
  /\ SnapshotRowsNow # <<>>
  /\ srcSnapshots' = srcSnapshots \o SnapshotRowsNow
  /\ UNCHANGED <<sessionVars, pagVars, normVars, height, chainBal, srcChanges, pc, req, pg, rejected, lastSnapshotRes,
                 tokenMetadata, lastSnapshotBlock, balanceSnapshots, changesMerged,
                 balances, outcome>>

\* the queries of the source
Max(S) == CHOOSE x \in S : \A y \in S : y <= x

Min2(a, b) == IF a < b THEN a ELSE b

TokenBalanceSnapshotLastDailySnapshotAtBlock(block) ==
  LET atOrBefore == {b \in SnapshotBlocks : b <= block}
  IN [TokenBalanceSnapshot |->
        IF atOrBefore = {} THEN <<>> ELSE <<[blockNumber |-> Max(atOrBefore)]>>,
      progressBlock |-> height]

TokenMetadataRows(token_in) ==
  SelectSeq(SrcTokens, LAMBDA t : t.id \in Range(token_in))

TokenBalanceSnapshotAtBlock(token_in, account_not_in, snapshotBlock) ==
  SelectSeq(srcSnapshots, LAMBDA r : /\ r.blockNumber = snapshotBlock
                                     /\ r.token_id \in Range(token_in)
                                     /\ r.account_id \notin Range(account_not_in))

TokenBalanceChangesBetweenBlocks(token_in, account_not_in, block_gt, block_lte) ==
  SelectSeq(srcChanges, LAMBDA r : /\ r.block > block_gt
                                   /\ r.block <= block_lte
                                   /\ r.token_id \in Range(token_in)
                                   /\ r.account_id \notin Range(account_not_in))

\* one page of a query: rows offset+1 .. offset+limit
PageOf(rows, offset, limit) ==
  SubSeq(rows, offset + 1, Min2(offset + limit, Len(rows)))

----------------------------------------------------------------------------
(* paginate                                                                *)

PgStart == [offset |-> 0, fetched |-> 0, results |-> <<>>, finished |-> FALSE]

\* paginate advancing the offset by one row too many
PaginateStep_SkipsRow(p, page, pageSize, fetchAtMost) ==
  LET results  == Append(p.results, page)
      resCount == Len(page)
  IN IF resCount < pageSize
     THEN [offset |-> p.offset, fetched |-> p.fetched, results |-> results,
           finished |-> TRUE]
     ELSE [offset |-> p.offset + pageSize + 1, fetched |-> p.fetched + resCount,
           results |-> results,
           finished |-> ~(p.fetched + resCount < fetchAtMost)]

\* one iteration of the while loop, for the page that the fetch returned
PaginateStep(p, page, pageSize, fetchAtMost) ==
  LET results  == Append(p.results, page)
      resCount == Len(page)
  IN IF resCount < pageSize
     THEN [offset |-> p.offset, fetched |-> p.fetched, results |-> results,
           finished |-> TRUE]
     ELSE [offset |-> p.offset + pageSize, fetched |-> p.fetched + resCount,
           results |-> results,
           finished |-> ~(p.fetched + resCount < fetchAtMost)]

\* the merge of the three uses: the row lists are concatenated
merge(a, b) == a \o b

RECURSIVE MergeFrom(_, _, _)
MergeFrom(res, results, i) ==
  IF i > Len(results) THEN res ELSE MergeFrom(merge(res, results[i]), results, i + 1)

MergeResults(results) == MergeFrom(results[1], results, 2)

----------------------------------------------------------------------------
(* getTokenBalancesAtBlock                                                 *)

\* a write that leaves an entry of the mapping as it is
Put_KeepsExisting(bal, k, v) ==
  [x \in (DOMAIN bal) \cup {k} |-> IF x \in DOMAIN bal THEN bal[x] ELSE v]

Put(bal, k, v) == [x \in (DOMAIN bal) \cup {k} |-> IF x = k THEN v ELSE bal[x]]

EmptyBalances == [x \in {} |-> DZero]

\* the loop over the snapshot rows
RECURSIVE SeedLoop(_, _)
SeedLoop(bal, rows) ==
  IF rows = <<>> THEN bal
  ELSE LET row == Head(rows)
           tid == ToLower(row.token_id)
           aid == ToLower(row.account_id)
       IN SeedLoop(Put(bal, <<tid, aid>>, row.amount), Tail(rows))

\* the loop over the balance changes
RECURSIVE ReplayLoop(_, _)
ReplayLoop(bal, changes) ==
  IF changes = <<>> THEN bal
  ELSE LET change  == Head(changes)
           tid     == ToLower(change.token_id)
           aid     == ToLower(change.account_id)
           diff    == minus(change.balanceAfter, change.balanceBefore)
           current == IF <<tid, aid>> \in DOMAIN bal THEN bal[<<tid, aid>>] ELSE DZero
       IN ReplayLoop(Put(bal, <<tid, aid>>, plus(current, diff)), Tail(changes))

NoReq == [targetBlock |-> 0, tokenIn |-> <<>>, accountNotIn |-> <<>>]

TokenAddressInputs == {<<>>, <<"T1">>, <<"T1", "t2">>}

ExcludeInputs == {<<>>, <<"A2">>}

accountNotInOf(excludeAccounts) ==
  IF Len(excludeAccounts) > 0
  THEN [i \in 1..Len(excludeAccounts) |-> getAccountId(excludeAccounts[i])]
  ELSE <<getAccountId(ZeroAddress)>>

\* the call accepting an empty token list
CheckTokenIn_Accepted(tokenIn) == "ok"

\* the check of the token list, made before anything is requested
CheckTokenIn(tokenIn) ==
  IF Len(tokenIn) = 0 THEN "NoTokenAddresses" ELSE "ok"

\* getGlobalSdk handing out the client it had before this call
getGlobalSdk_ReturnsPrevious(sdk) == [sdk |-> sdk, globalSdk |-> "client"]

\* the client is created on the first call and handed out from then on
getGlobalSdk(sdk) ==
  IF sdk = "null" THEN [sdk |-> "client", globalSdk |-> "client"]
  ELSE [sdk |-> sdk, globalSdk |-> sdk]

\* the call, up to the first requests sent to the source: the lookup and the
\* first page of the metadata are asked together
Request(targetBlock, tokenAddresses, excludeAccounts) ==
  LET tokenIn == [i \in 1..Len(tokenAddresses) |-> getTokenId(tokenAddresses[i])]
  IN /\ pc = "idle"
     /\ globalSdk' = getGlobalSdk(globalSdk).globalSdk
     /\ req' = [targetBlock |-> targetBlock, tokenIn |-> tokenIn,
                accountNotIn |-> accountNotInOf(excludeAccounts)]
     /\ IF CheckTokenIn(tokenIn) # "ok"
        THEN pc' = "failed" /\ outcome' = "NoTokenAddresses"
        ELSE pc' = "lookup" /\ outcome' = outcome
     /\ pg' = PgStart
     /\ UNCHANGED <<normHistory, cacheStore, httpReply, httpPending, pagVars, normVars, srcVars, rejected,
                    lastSnapshotRes, tokenMetadata, lastSnapshotBlock,
                    balanceSnapshots, changesMerged, balances>>

\* the checks made once Promise.all has both answers
\* the call without the check of the progress marker
CheckProgress_Skipped(res, targetBlock) == "ok"

CheckProgress(res, targetBlock) ==
  IF res.progressBlock < targetBlock THEN "IndexerNotCaughtUp" ELSE "ok"

\* the missing snapshot reported with the error of the progress check
CheckSnapshot_WrongError(res) ==
  IF res.TokenBalanceSnapshot = <<>> THEN "IndexerNotCaughtUp" ELSE "ok"

CheckSnapshot(res) ==
  IF res.TokenBalanceSnapshot = <<>> THEN "NoDailySnapshot" ELSE "ok"

AfterPromiseAll(res, targetBlock) ==
  IF CheckProgress(res, targetBlock) # "ok" THEN CheckProgress(res, targetBlock)
  ELSE CheckSnapshot(res)

\* Promise.all has the answer of the lookup and the merged metadata
PromiseAllResolves(res, results) ==
  LET chk == AfterPromiseAll(res, req.targetBlock)
  IN /\ pg' = PgStart
     /\ IF chk # "ok"
        THEN /\ pc' = "failed"
             /\ outcome' = chk
             /\ UNCHANGED <<tokenMetadata, lastSnapshotBlock>>
        ELSE /\ pc' = "snap"
             /\ tokenMetadata' = MergeResults(results)
             /\ lastSnapshotBlock' = res.TokenBalanceSnapshot[1].blockNumber
             /\ outcome' = outcome

\* the answer of the last-snapshot lookup arrives, before or after the last
\* page of the metadata
LookupAnswer ==
  /\ pc = "lookup"
  /\ lastSnapshotRes' = TokenBalanceSnapshotLastDailySnapshotAtBlock(req.targetBlock)
  /\ IF pg.finished
     THEN PromiseAllResolves(TokenBalanceSnapshotLastDailySnapshotAtBlock(req.targetBlock),
                             pg.results)
     ELSE /\ pc' = "meta"
          /\ UNCHANGED <<pg, tokenMetadata, lastSnapshotBlock, outcome>>
  /\ UNCHANGED <<sessionVars, pagVars, normVars, srcVars, req, rejected, balanceSnapshots,
                 changesMerged, balances>>

\* a page of token metadata arrives, before or after the answer of the lookup
MetadataPage ==
  /\ pc \in {"lookup", "meta"}
  /\ ~pg.finished
  /\ pg.fetched < FetchAtMost
  /\ LET page == PageOf(TokenMetadataRows(req.tokenIn), pg.offset, PageSize)
         p    == PaginateStep(pg, page, PageSize, FetchAtMost)
     IN IF ~p.finished \/ pc = "lookup"
        THEN /\ pg' = p
             /\ UNCHANGED <<pc, tokenMetadata, lastSnapshotBlock, outcome>>
        ELSE PromiseAllResolves(lastSnapshotRes, p.results)
  /\ UNCHANGED <<sessionVars, pagVars, normVars, srcVars, req, rejected, lastSnapshotRes,
                 balanceSnapshots, changesMerged, balances>>

\* a page of snapshot rows arrives; after the last one the mapping is seeded
SnapshotPage ==
  /\ pc = "snap"
  /\ pg.fetched < FetchAtMost
  /\ LET rows == TokenBalanceSnapshotAtBlock(req.tokenIn, req.accountNotIn,
                                             lastSnapshotBlock)
         p    == PaginateStep(pg, PageOf(rows, pg.offset, PageSize), PageSize, FetchAtMost)
     IN IF ~p.finished
        THEN /\ pg' = p
             /\ UNCHANGED <<pc, balanceSnapshots, balances>>
        ELSE /\ pg' = PgStart
             /\ pc' = "changes"
             /\ balanceSnapshots' = MergeResults(p.results)
             /\ balances' = SeedLoop(EmptyBalances, MergeResults(p.results))
  /\ UNCHANGED <<sessionVars, pagVars, normVars, srcVars, req, rejected, lastSnapshotRes,
                 tokenMetadata, lastSnapshotBlock, changesMerged, outcome>>

\* a page of balance changes arrives; after the last one they are replayed
ChangesPage ==
  /\ pc = "changes"
  /\ pg.fetched < FetchAtMost
  /\ LET rows == TokenBalanceChangesBetweenBlocks(req.tokenIn, req.accountNotIn,
                                                  lastSnapshotBlock, req.targetBlock)
         p    == PaginateStep(pg, PageOf(rows, pg.offset, PageSize), PageSize, FetchAtMost)
     IN IF ~p.finished
        THEN /\ pg' = p
             /\ UNCHANGED <<pc, changesMerged, balances, outcome>>
        ELSE /\ pg' = PgStart
             /\ pc' = "done"
             /\ outcome' = "returned"
             /\ changesMerged' = MergeResults(p.results)
             /\ balances' = ReplayLoop(balances, MergeResults(p.results))
  /\ UNCHANGED <<sessionVars, pagVars, normVars, srcVars, req, rejected, lastSnapshotRes,
                 tokenMetadata, lastSnapshotBlock, balanceSnapshots>>

\* the call going on with the same request after a rejection
OnRejected_Retries(at) == at

\* no try/catch around the awaits: a rejection leaves the function
OnRejected(at) == "failed"

\* a request to the source is rejected, the lookup or the page in flight: the
\* rejection ends the call
SourceFailure(which) ==
  /\ IF which = "lookup"
     THEN pc = "lookup"
     ELSE \/ pc \in {"meta", "snap", "changes"}
          \/ pc = "lookup" /\ ~pg.finished
  /\ pc' = OnRejected(pc)
  /\ outcome' = "SourceError"
  /\ rejected' = which
  /\ UNCHANGED <<sessionVars, pagVars, normVars, srcVars, req, pg, lastSnapshotRes,
                 tokenMetadata, lastSnapshotBlock, balanceSnapshots, changesMerged,
                 balances>>

\* the paginate of the metadata is not cancelled when the lookup is rejected:
\* its pages go on arriving after the call has failed, and its result is dropped
MetadataPageAfterFailure ==
  /\ pc = "failed"
  /\ rejected = "lookup"
  /\ ~pg.finished
  /\ pg.fetched < FetchAtMost
  /\ pg' = PaginateStep(pg, PageOf(TokenMetadataRows(req.tokenIn), pg.offset, PageSize),
                        PageSize, FetchAtMost)
  /\ UNCHANGED <<sessionVars, pagVars, normVars, srcVars, pc, req, rejected, lastSnapshotRes,
                 tokenMetadata, lastSnapshotBlock, balanceSnapshots, changesMerged,
                 balances, outcome>>

----------------------------------------------------------------------------
(* The balances of the indexing service seen by the holdings normaliser.   *)
(* Amounts of this part are counted in raw units and stay below 20 digits, *)
(* where decimalToBigInt(new Decimal(balanceAfter), decimals) is exact.    *)

\* TokenBalance rows the source can hold: token address, account address,
\* balance.  0xrp holds vault shares for its stakers, 0xS is the strategy of
\* the outer vault and holds its claim on the manager.
BalanceMenu == <<
  [token |-> "0xv",   account |-> "0xh1", amount |-> 80],
  [token |-> "0xv",   account |-> "0xh1", amount |-> 1],
  [token |-> "0xv",   account |-> "0xh1", amount |-> 600],
  [token |-> "0xv",   account |-> "0xH2", amount |-> 20],
  [token |-> "0xv",   account |-> "0xH2", amount |-> 2],
  [token |-> "0xv",   account |-> "0xH2", amount |-> 400],
  [token |-> "0xv",   account |-> "0xrp", amount |-> 20],
  [token |-> "0xv",   account |-> "0xrp", amount |-> 2],
  [token |-> "0xv",   account |-> ZeroAddress, amount |-> 7],
  [token |-> "0xm",   account |-> "0xS",  amount |-> 50],
  [token |-> "0xm",   account |-> "0xh1", amount |-> 5],
  [token |-> "0xm",   account |-> "0xH2", amount |-> 3],
  [token |-> "0xrp",  account |-> "0xh1", amount |-> 20],
  [token |-> "0xrp",  account |-> "0xh1", amount |-> 1],
  [token |-> "0xrp",  account |-> "0xh2", amount |-> 3],
  [token |-> "0xmrp", account |-> "0xh1", amount |-> 4],
  [token |-> "0xmrp", account |-> "0xS",  amount |-> 9],
  [token |-> "0xb",   account |-> "0xh1", amount |-> 6],
  [token |-> "0xb",   account |-> "0xh1", amount |-> 1],
  [token |-> "0xb",   account |-> "0xH2", amount |-> 0] >>

\* Token rows of the source
TokenRows == <<
  [id |-> getTokenId("0xv"),   address |-> "0xv",   name |-> "V",   symbol |-> "V",   decimals |-> 18],
  [id |-> getTokenId("0xm"),   address |-> "0xm",   name |-> "M",   symbol |-> "M",   decimals |-> 18],
  [id |-> getTokenId("0xrp"),  address |-> "0xrp",  name |-> "RP",  symbol |-> "RP",  decimals |-> 18],
  [id |-> getTokenId("0xmrp"), address |-> "0xmrp", name |-> "MRP", symbol |-> "MRP", decimals |-> 18],
  [id |-> getTokenId("0xb"),   address |-> "0xb",   name |-> "B",   symbol |-> "B",   decimals |-> 18] >>

\* the rows of the source, in its order
TokenBalanceRows == SelectSeq(BalanceMenu, LAMBDA r : r \in srcTokenBalance)

\* the source as a call can see it
SourceNow ==
  [TokenBalance |-> srcTokenBalance, Token |-> srcToken,
   progressBlock |-> srcProgress, lastChange |-> srcLastChange]

\* the indexer records the balance of one more (token, account) in the block
\* that it is processing; a call that is fetching its pages is no longer served
\* by one state of the source
RecordBalance(r) ==
  /\ Cardinality(srcTokenBalance) < MaxRows
  /\ \A q \in srcTokenBalance : <<q.token, q.account>> # <<r.token, r.account>>
  /\ srcTokenBalance' = srcTokenBalance \cup {r}
  /\ srcLastChange' = [q \in srcTokenBalance \cup {r} |->
                         IF q = r THEN srcProgress ELSE srcLastChange[q]]
  /\ normPc = "paging" => normCall.moved < MaxMoved
  /\ normOther.pc = "paging" => normOther.call.moved < MaxMoved
  /\ normCall' = [normCall EXCEPT !.moved = IF normPc = "paging" THEN @ + 1 ELSE @]
  /\ normOther' = [normOther EXCEPT !.call.moved = IF normOther.pc = "paging" THEN @ + 1 ELSE @]
  /\ UNCHANGED <<sessionVars, pagVars, reconVars, srcToken, srcProgress, normPc, normPg,
                 normLocals, normResult, normOutcome, normLookup, normFetches>>

\* the same while no call stands at its end with its result
IndexBalance(r) ==
  /\ normOutcome = "none" /\ normOther.pc # "over"
  /\ RecordBalance(r)

\* the indexer goes on to the next block; for a call that is fetching its pages
\* the source has changed
IndexBlock ==
  /\ srcProgress < MaxBlock
  /\ srcProgress' = srcProgress + 1
  /\ normPc = "paging" => normCall.moved < MaxMoved
  /\ normOther.pc = "paging" => normOther.call.moved < MaxMoved
  /\ normCall' = [normCall EXCEPT !.moved = IF normPc = "paging" THEN @ + 1 ELSE @]
  /\ normOther' = [normOther EXCEPT !.call.moved = IF normOther.pc = "paging" THEN @ + 1 ELSE @]
  /\ UNCHANGED <<sessionVars, pagVars, reconVars, srcTokenBalance, srcToken, srcLastChange,
                 normPc, normPg, normLocals, normResult, normOutcome, normLookup,
                 normFetches>>

DefectTokens == {"0xv", "0xrp"}

DefectKinds == {"name", "symbol", "decimals", "row"}

\* the Token rows without the row of token t, or with one of its fields absent
\* (an absent name or symbol reads "", absent decimals read 0)
WithDefect(tokenRows, t, kind) ==
  LET rest == SelectSeq(tokenRows, LAMBDA r : r.address # t)
  IN IF kind = "row" THEN rest
     ELSE [i \in 1..Len(tokenRows) |->
             IF tokenRows[i].address # t THEN tokenRows[i]
             ELSE IF kind = "name" THEN [tokenRows[i] EXCEPT !.name = ""]
             ELSE IF kind = "symbol" THEN [tokenRows[i] EXCEPT !.symbol = ""]
             ELSE [tokenRows[i] EXCEPT !.decimals = 0]]

\* the indexer holds incomplete metadata of one token
IndexDefect(t, kind) ==
  /\ normPc = "idle"
  /\ srcToken = TokenRows
  /\ srcToken' = WithDefect(srcToken, t, kind)
  /\ UNCHANGED <<sessionVars, pagVars, reconVars, srcTokenBalance, srcProgress,
                 srcLastChange, normCall, normPc, normPg, normOther, normLocals, normResult, normOutcome, normLookup, normFetches>>

\* BalanceAtBlock: the Token rows and one page of the TokenBalance rows of the
\* filters
BalanceAtBlock(tokenId_in, account_not_in, block, offset, limit) ==
  LET rows == SelectSeq(TokenBalanceRows,
                        LAMBDA r : /\ getTokenId(r.token) \in Range(tokenId_in)
                                   /\ getAccountId(r.account) \notin Range(account_not_in))
      \* lastChange: the last change at or before the block, if there is one
      atBlock(r) == IF srcLastChange[r] <= block THEN r ELSE [r EXCEPT !.amount = 0]
  IN [meta |-> [progressBlock |-> srcProgress],
      Token |-> SelectSeq(srcToken, LAMBDA t : t.id \in Range(tokenId_in)),
      TokenBalance |-> PageOf([i \in 1..Len(rows) |-> atBlock(rows[i])], offset, limit)]

----------------------------------------------------------------------------
(* getTokenBalancesAtBlock on the BalanceAtBlock query                     *)

\* paginate after the answer to one request of BalanceAtBlock: the pages are
\* counted by their TokenBalance rows
PaginateBalanceAtBlock(p, page) ==
  [PaginateStep(p, page.TokenBalance, PageSize, FetchAtMost)
     EXCEPT !.results = Append(p.results, page)]

\* the merge of two pages: the Token rows of the first, the balances of both
mergeBalanceAtBlock(a, b) ==
  [meta |-> a.meta, Token |-> a.Token, TokenBalance |-> a.TokenBalance \o b.TokenBalance]

RECURSIVE MergeBalanceAtBlock(_, _, _)
MergeBalanceAtBlock(res, results, i) ==
  IF i > Len(results) THEN res
  ELSE MergeBalanceAtBlock(mergeBalanceAtBlock(res, results[i]), results, i + 1)

RECURSIVE MagNat(_)
MagNat(m) == IF m = <<>> THEN 0 ELSE Head(m) + 10 * MagNat(Tail(m))

\* value.times(10 ^ decimals).toFixed(0) of an amount counted in raw units:
\* the product is rounded to Precision significant digits
decimalToBigInt(amount) == MagNat(RoundMag(NatMag(amount)))

\* the rows of the result: lower-case addresses, zero balances dropped
RawBalancesOf(rows) ==
  LET kept == SelectSeq(rows, LAMBDA r : r.amount # 0)
  IN [i \in 1..Len(kept) |->
        [tokenAddress |-> ToLower(kept[i].token),
         accountAddress |-> ToLower(kept[i].account),
         balanceRaw |-> decimalToBigInt(kept[i].amount)]]

TokenMetadataOf(tokenRows) ==
  [i \in 1..Len(tokenRows) |->
     [id |-> tokenRows[i].id, address |-> ToLower(tokenRows[i].address),
      name |-> tokenRows[i].name, symbol |-> tokenRows[i].symbol,
      decimals |-> tokenRows[i].decimals]]

\* tokenMetadata.find(t => t.address === tokenAddress)
FindToken(meta, tokenAddress) == SelectSeq(meta, LAMBDA t : t.address = tokenAddress)

\* the mapping of the rows throws at the first row whose token has no metadata
\* or no decimals
RowError(raw, meta) ==
  LET bad == SelectSeq(raw, LAMBDA e : \/ FindToken(meta, e.tokenAddress) = <<>>
                                       \/ FindToken(meta, e.tokenAddress)[1].decimals = 0)
  IN IF bad = <<>> THEN "none"
     ELSE IF FindToken(meta, bad[1].tokenAddress) = <<>>
     THEN "TokenNotFound:" \o bad[1].tokenAddress
     ELSE "NoDecimals:" \o bad[1].tokenAddress

\* fetchPage of the call: BalanceAtBlock with its filters, at an offset
FetchPage(call, offset) ==
  BalanceAtBlock([i \in 1..Len(call.tokenAddresses) |-> getTokenId(call.tokenAddresses[i])],
                 accountNotInOf(call.excludeAccounts), call.targetBlock, offset, PageSize)

\* getTokenBalancesAtBlock once paginate has returned the pages it fetched
getTokenBalancesAtBlock(results, targetBlock) ==
  LET res  == MergeBalanceAtBlock(results[1], results, 2)
      meta == TokenMetadataOf(res.Token)
      raw  == RawBalancesOf(res.TokenBalance)
      \* a progressBlock of 0 is falsy: lastProcessedBlock is null
      lastProcessedBlock == IF res.meta.progressBlock = 0 THEN -1 ELSE res.meta.progressBlock
  IN IF lastProcessedBlock = -1 \/ lastProcessedBlock < targetBlock
     THEN [error |-> "IndexerNotCaughtUp", balances |-> <<>>, tokenMetadata |-> <<>>]
     ELSE IF RowError(raw, meta) # "none"
     THEN [error |-> RowError(raw, meta), balances |-> <<>>, tokenMetadata |-> <<>>]
     ELSE [error |-> "none", balances |-> raw, tokenMetadata |-> meta]

----------------------------------------------------------------------------
(* _getVaultHoldersAsBaseVaultEquivalent                                   *)

\* vault configurations (BeefyVault); pools and boosts by their addresses
SimpleVault ==
  [id |-> "simple", protocol_type |-> "beefy",
   vault_address |-> "0xV", strategy_address |-> "0xS",
   reward_pools |-> <<"0xRP">>, boosts |-> <<"0xB">>]

ClmVault ==
  [id |-> "layered", protocol_type |-> "beefy_clm_vault",
   vault_address |-> "0xV", strategy_address |-> "0xS",
   reward_pools |-> <<"0xRP">>, boosts |-> <<"0xB">>,
   beefy_clm_manager |->
     [vault_address |-> "0xM", strategy_address |-> "0xMS",
      reward_pools |-> <<"0xMRP">>, boosts |-> <<>>]]

VaultConfigs == {SimpleVault, ClmVault}

BalanceGtInputs == {0, 3}

\* target blocks of a call: processed by the indexer from the start, or later
TargetBlockInputs == 1..MaxBlock

IsClm(config) == config.protocol_type = "beefy_clm_vault"

RECURSIVE uniq(_)
uniq(s) == IF s = <<>> THEN <<>>
           ELSE LET init == uniq(SubSeq(s, 1, Len(s) - 1))
                IN IF s[Len(s)] \in Range(init) THEN init ELSE Append(init, s[Len(s)])

LowerAll(s) == [i \in 1..Len(s) |-> ToLower(s[i])]

TokensOf(config) ==
  uniq(LowerAll(IF IsClm(config)
                THEN <<config.vault_address, config.beefy_clm_manager.vault_address>>
                     \o config.beefy_clm_manager.reward_pools
                     \o config.beefy_clm_manager.boosts
                     \o config.reward_pools \o config.boosts
                ELSE <<config.vault_address>> \o config.reward_pools \o config.boosts))

StrategiesOf(config) ==
  uniq(LowerAll(IF IsClm(config)
                THEN <<config.strategy_address, config.beefy_clm_manager.strategy_address>>
                ELSE <<config.strategy_address>>))

ExcludeHoldersOf(config) == uniq(StrategiesOf(config) \o TokensOf(config))

\* a filter that excludes no holder
NotExcluded_Nobody(excludeHolders, e) == TRUE

\* !excludeHolders.includes(e.holder.toLowerCase())
NotExcluded(excludeHolders, e) == ToLower(e.holder) \notin Range(excludeHolders)

\* the checks of balancesByContract: the first token without symbol or name
MetadataError(meta) ==
  LET bad == SelectSeq(meta, LAMBDA m : m.symbol = "" \/ m.name = "")
  IN IF bad = <<>> THEN "none"
     ELSE IF bad[1].symbol = "" THEN "NoSymbol:" \o bad[1].id
     ELSE "NoName:" \o bad[1].id

\* balancesByContract: token address -> balances above balanceGt
BalancesByContract(meta, rawBalances, balanceGt) ==
  [a \in {ToLower(meta[i].address) : i \in 1..Len(meta)} |->
     LET kept == SelectSeq(rawBalances,
                           LAMBDA e : e.tokenAddress = a /\ e.balanceRaw > balanceGt)
     IN [i \in 1..Len(kept) |->
           [balance |-> kept[i].balanceRaw, holder |-> kept[i].accountAddress]]]

\* (balancesByContract[address.toLowerCase()]?.balances ?? []).map(...)
WithDetails(by, address) ==
  LET bs == IF ToLower(address) \in DOMAIN by THEN by[ToLower(address)] ELSE <<>>
  IN [i \in 1..Len(bs) |->
        [holder |-> bs[i].holder, balance |-> bs[i].balance,
         hold_details |-> <<[token |-> address, balance |-> bs[i].balance]>>]]

RECURSIVE FlatMapDetails(_, _)
FlatMapDetails(by, addresses) ==
  IF addresses = <<>> THEN <<>>
  ELSE WithDetails(by, Head(addresses)) \o FlatMapDetails(by, Tail(addresses))

\* the holders of a share token, of its reward pools and of its boosts
ShareHolders(by, vault) ==
  WithDetails(by, vault.vault_address) \o FlatMapDetails(by, vault.reward_pools)
    \o FlatMapDetails(by, vault.boosts)

RECURSIVE SumBalances(_)
SumBalances(entries) ==
  IF entries = <<>> THEN 0 ELSE Head(entries).balance + SumBalances(Tail(entries))

\* a lookup that adds up every holding of the address
FindBalance_SumsAll(holders, address) ==
  SumBalances(SelectSeq(holders, LAMBDA e : ToLower(e.holder) = ToLower(address)))

\* managerShareHolders.find(holder is the strategy)?.balance ?? '0'
FindBalance(holders, address) ==
  LET hits == SelectSeq(holders, LAMBDA e : ToLower(e.holder) = ToLower(address))
  IN IF hits = <<>> THEN 0 ELSE hits[1].balance

\* the conversion rounding up instead of down
ConvertBalance_RoundsUp(balance, vaultManagerShareBalance, vaultTotalSupply) ==
  ((balance * vaultManagerShareBalance) + vaultTotalSupply - 1) \div vaultTotalSupply

\* the conversion dividing before it multiplies
ConvertBalance_DividesFirst(balance, vaultManagerShareBalance, vaultTotalSupply) ==
  (balance \div vaultTotalSupply) * vaultManagerShareBalance

\* (BigInt(e.balance) * vaultManagerShareBalance) / vaultTotalSupply
ConvertBalance(balance, vaultManagerShareBalance, vaultTotalSupply) ==
  (balance * vaultManagerShareBalance) \div vaultTotalSupply

Converted(entries, claim, supply) ==
  [i \in 1..Len(entries) |->
     [holder |-> entries[i].holder,
      balance |-> ConvertBalance(entries[i].balance, claim, supply),
      hold_details |-> entries[i].hold_details]]

\* e.balance !== 0n && !excludeHolders.includes(e.holder.toLowerCase())
KeptHolders(entries, excludeHolders) ==
  SelectSeq(entries, LAMBDA e : e.balance # 0 /\ NotExcluded(excludeHolders, e))

RECURSIVE ConcatDetails(_)
ConcatDetails(entries) ==
  IF entries = <<>> THEN <<>>
  ELSE Head(entries).hold_details \o ConcatDetails(Tail(entries))

\* balances.reduce((acc, curr) => acc + BigInt(curr.balance), 0n)
MergedBalance(group) == SumBalances(group)

\* the holdings returned as they are, one record each
MergeHolders_NoGrouping(entries) == entries

\* groupBy(holder.toLowerCase()) and one merged record per group
MergeHolders(entries) ==
  LET keys == uniq([i \in 1..Len(entries) |-> ToLower(entries[i].holder)])
  IN [k \in 1..Len(keys) |->
        LET group == SelectSeq(entries, LAMBDA e : ToLower(e.holder) = keys[k])
        IN [holder |-> keys[k], balance |-> MergedBalance(group),
            hold_details |-> ConcatDetails(group)]]

NoLocals == [vaultManagerShareBalance |-> 0, vaultTotalSupply |-> 0,
             managerShareHolders |-> <<>>, vaultShareHolders |-> <<>>,
             vaultManagerHolders |-> <<>>]

\* the arguments of a call, those of its getTokenBalancesAtBlock and its client
\* (const sdk), the changes of the source since the first request of the call,
\* and the source at its last request
NoCall == [fn |-> "none", config |-> SimpleVault, balanceGt |-> 0, targetBlock |-> 1,
           sdk |-> "null", tokenAddresses |-> <<>>, excludeAccounts |-> <<>>,
           moved |-> 0,
           seen |-> [TokenBalance |-> {}, Token |-> <<>>, progressBlock |-> 0,
                     lastChange |-> [r \in {} |-> 0]]]

\* the locals of the branch of a layered vault
ClmLocals(config, by) ==
  LET managerShareHolders == ShareHolders(by, config.beefy_clm_manager)
      claim  == FindBalance(managerShareHolders, config.strategy_address)
      supply == SumBalances(WithDetails(by, config.vault_address))
      vaultShareHolders ==
        SelectSeq(ShareHolders(by, config),
                  LAMBDA e : NotExcluded(ExcludeHoldersOf(config), e))
  IN [vaultManagerShareBalance |-> claim, vaultTotalSupply |-> supply,
      managerShareHolders |-> managerShareHolders,
      vaultShareHolders |-> vaultShareHolders,
      vaultManagerHolders |->
        IF supply = 0 THEN <<>> ELSE Converted(vaultShareHolders, claim, supply)]

SimpleLocals(config, by) ==
  [NoLocals EXCEPT !.managerShareHolders = ShareHolders(by, config)]

\* what _getVaultHoldersAsBaseVaultEquivalent makes of the balances it got
BaseVaultEquivalent(config, balanceGt, got) ==
  LET by  == BalancesByContract(got.tokenMetadata, got.balances, balanceGt)
      loc == IF IsClm(config) THEN ClmLocals(config, by) ELSE SimpleLocals(config, by)
  IN IF MetadataError(got.tokenMetadata) # "none"
     THEN [outcome |-> MetadataError(got.tokenMetadata), locals |-> NoLocals,
           result |-> <<>>]
     ELSE IF IsClm(config) /\ loc.vaultTotalSupply = 0 /\ loc.vaultShareHolders # <<>>
     THEN \* BigInt division by zero: RangeError
          [outcome |-> "RangeError", locals |-> NoLocals, result |-> <<>>]
     ELSE [outcome |-> "returned", locals |-> loc,
           result |->
             MergeHolders(KeptHolders(loc.managerShareHolders \o loc.vaultManagerHolders,
                                      ExcludeHoldersOf(config)))]

\* what getVaultHolders makes of them: the balances above balanceGt, by token
VaultHolders(balanceGt, got) ==
  LET meta == got.tokenMetadata
      by   == BalancesByContract(meta, got.balances, balanceGt)
  IN IF MetadataError(meta) # "none"
     THEN [outcome |-> MetadataError(meta), locals |-> NoLocals, result |-> <<>>]
     ELSE [outcome |-> "returned", locals |-> NoLocals,
           result |-> [i \in 1..Len(meta) |->
                         [id |-> ToLower(meta[i].address), name |-> meta[i].name,
                          symbol |-> meta[i].symbol, decimals |-> meta[i].decimals,
                          balances |-> by[ToLower(meta[i].address)]]]]

\* the call after the await of its balances: it throws or it returns
AfterBalances(call, results) ==
  LET got == getTokenBalancesAtBlock(results, call.targetBlock)
  IN IF got.error # "none"
     THEN [outcome |-> got.error, locals |-> NoLocals, result |-> <<>>]
     ELSE IF call.fn = "getVaultHolders" THEN VaultHolders(call.balanceGt, got)
     ELSE BaseVaultEquivalent(call.config, call.balanceGt, got)

\* getTokenBalancesAtBlock up to its first request: the client is taken, the
\* addresses are checked, paginate starts
CallTokenBalancesAtBlock(call) ==
  /\ globalSdk' = getGlobalSdk(globalSdk).globalSdk
  /\ normCall' = [call EXCEPT !.sdk = getGlobalSdk(globalSdk).sdk]
  /\ normFetches' = normFetches + 1
  /\ normPg' = PgStart
  /\ IF Len(call.tokenAddresses) = 0
     THEN normPc' = "over" /\ normOutcome' = "NoTokenAddresses"
     ELSE normPc' = "paging" /\ UNCHANGED normOutcome
  /\ UNCHANGED <<pagVars, reconVars, balVars, normLocals, normResult>>

\* the arguments of a call of the normaliser for a resolved configuration
NormalizerCall(config, balanceGt, targetBlock) ==
  [NoCall EXCEPT !.fn = "_getVaultHoldersAsBaseVaultEquivalent", !.config = config,
                 !.balanceGt = balanceGt, !.targetBlock = targetBlock,
                 !.tokenAddresses = TokensOf(config),
                 !.excludeAccounts = <<ZeroAddress>>]

\* a call of the normaliser for a resolved configuration, up to the first
\* request of its balances
Normalize(config, balanceGt, targetBlock) ==
  /\ normPc \in {"idle", "config"}
  /\ normOutcome = "none"
  /\ CallTokenBalancesAtBlock(NormalizerCall(config, balanceGt, targetBlock))

\* the request of a page: sdk.BalanceAtBlock is a call of a method of the
\* client that the call took, and the source answers it; after the last page the
\* call goes on to its end
BalancePage ==
  /\ normPc = "paging"
  /\ LET p   == PaginateBalanceAtBlock(normPg, FetchPage(normCall, normPg.offset))
         end == AfterBalances(normCall, p.results)
     IN IF normCall.sdk = "null"
        THEN \* a method of null is called
             /\ normPc' = "over"
             /\ normOutcome' = "TypeError"
             /\ normCall' = [normCall EXCEPT !.seen = SourceNow]
             /\ UNCHANGED <<normPg, normLocals, normResult>>
        ELSE /\ normPg' = p
             /\ IF p.finished
                THEN /\ normPc' = "over"
                     /\ normOutcome' = end.outcome
                     /\ normLocals' = end.locals
                     /\ normResult' = end.result
                     /\ normCall' = [normCall EXCEPT !.seen = SourceNow]
                ELSE UNCHANGED <<normPc, normOutcome, normLocals, normResult, normCall>>
  /\ UNCHANGED <<sessionVars, pagVars, reconVars, balVars, normOther, normLookup,
                 normFetches>>

----------------------------------------------------------------------------
(* The entry points of the normaliser                                      *)

\* a vault of its own for the manager share token
ManagerVault ==
  [id |-> "manager", protocol_type |-> "beefy",
   vault_address |-> "0xM", strategy_address |-> "0xMS",
   reward_pools |-> <<"0xMRP">>, boosts |-> <<>>]

\* the configurations of the registry
Registry == <<SimpleVault, ClmVault, ManagerVault>>

NoLookup == [kind |-> "none", key |-> ""]

VaultIdInputs == {"simple", "layered", "manager", "Simple"}

VaultAddressInputs == {"0xV", "0xm", "0xH2"}

StrategyAddressInputs == {"0xs", "0xMS", "0xH2"}

\* getBeefyBreakdownableVaultConfig(chainId, vault => vault.id === vault_id)
ConfigsByVaultId(vault_id) == SelectSeq(Registry, LAMBDA vault : vault.id = vault_id)

ConfigsByVaultAddress(vault_address) ==
  SelectSeq(Registry, LAMBDA vault : ToLower(vault.vault_address) = ToLower(vault_address))

ConfigsByStrategyAddress(strategy_address) ==
  SelectSeq(Registry,
            LAMBDA vault : ToLower(vault.strategy_address) = ToLower(strategy_address))

\* a check that takes the first of several configurations
ResolveOutcome_TakesFirst(configs) ==
  IF Len(configs) = 0 THEN "NotFound" ELSE "ok"

\* the two checks on the configurations found
ResolveOutcome(configs) ==
  IF Len(configs) = 0 THEN "NotFound"
  ELSE IF Len(configs) > 1 THEN "NotUnique"
  ELSE "ok"

\* vault.id.startsWith(vault_id)
StartsWith(s, prefix) ==
  Len(prefix) <= Len(s) /\ SubSeq(s, 1, Len(prefix)) = prefix

ConfigsByVaultIdPrefix(vault_id) ==
  SelectSeq(Registry, LAMBDA vault : StartsWith(vault.id, vault_id))

VaultIdPrefixInputs == {"simple", "lay", "nope"}

RECURSIVE TokensOfAll(_)
TokensOfAll(configs) ==
  IF configs = <<>> THEN <<>> ELSE TokensOf(Head(configs)) \o TokensOfAll(Tail(configs))

RECURSIVE StrategiesOfAll(_)
StrategiesOfAll(configs) ==
  IF configs = <<>> THEN <<>>
  ELSE StrategiesOf(Head(configs)) \o StrategiesOfAll(Tail(configs))

\* the configurations that the lookup of an entry point finds
ConfigsOf(lookup) ==
  CASE lookup.kind = "id" -> ConfigsByVaultId(lookup.key)
    [] lookup.kind = "vault_address" -> ConfigsByVaultAddress(lookup.key)
    [] lookup.kind = "strategy_address" -> ConfigsByStrategyAddress(lookup.key)
    [] OTHER -> ConfigsByVaultIdPrefix(lookup.key)

\* an entry point up to the await of the configurations
EntryPoint(kind, key, balanceGt, targetBlock) ==
  /\ normPc = "idle"
  /\ normOutcome = "none"
  /\ normLookup' = [kind |-> kind, key |-> key]
  /\ normCall' = [NoCall EXCEPT !.balanceGt = balanceGt, !.targetBlock = targetBlock]
  /\ normPc' = "config"
  /\ UNCHANGED <<sessionVars, pagVars, reconVars, balVars, normPg,
                 normOther, normLocals, normResult, normOutcome, normFetches>>

getVaultHoldersAsBaseVaultEquivalentForVaultAddress(vault_address, balanceGt, targetBlock) ==
  EntryPoint("vault_address", vault_address, balanceGt, targetBlock)

getVaultHoldersAsBaseVaultEquivalentForStrategyAddress(strategy_address, balanceGt, targetBlock) ==
  EntryPoint("strategy_address", strategy_address, balanceGt, targetBlock)

getVaultHoldersAsBaseVaultEquivalentForVaultId(vault_id, balanceGt, targetBlock) ==
  EntryPoint("id", vault_id, balanceGt, targetBlock)

getVaultHolders(vault_id, balanceGt, targetBlock) ==
  EntryPoint("id_prefix", vault_id, balanceGt, targetBlock)

\* the configurations are there: getVaultHolders asks for the balances of all
\* of them; the other entry points check them and normalise the only one
ConfigsResolve ==
  LET configs == ConfigsOf(normLookup)
      tokens  == uniq(TokensOfAll(configs))
  IN /\ normPc = "config"
     /\ UNCHANGED <<normLookup, normOther, normHistory, cacheStore, httpReply, httpPending>>
     /\ IF normLookup.kind = "id_prefix"
        THEN CallTokenBalancesAtBlock(
               [NoCall EXCEPT !.fn = "getVaultHolders",
                              !.balanceGt = normCall.balanceGt,
                              !.targetBlock = normCall.targetBlock,
                              !.tokenAddresses = tokens,
                              !.excludeAccounts =
                                 uniq(uniq(StrategiesOfAll(configs)) \o tokens)])
        ELSE IF ResolveOutcome(configs) # "ok"
        THEN /\ normOutcome' = ResolveOutcome(configs)
             /\ normPc' = "over"
             /\ UNCHANGED <<globalSdk, pagVars, reconVars, balVars,
                            normCall, normPg, normLocals, normResult, normFetches>>
        ELSE Normalize(configs[1], normCall.balanceGt, normCall.targetBlock)

----------------------------------------------------------------------------
(* paginate on its own: any source, page size, ceiling, delay and count    *)

\* Math.max of no argument
NegInfinity == 0 - 1000000

\* the lists a source can hold: a response carries one list per entry
ListOf(n, base) == [i \in 1..n |-> base + i]

SourceInputs ==
  {<<>>} \cup {<<ListOf(n, 0)>> : n \in 0..MaxPageRows}
         \cup {<<ListOf(n, 0), ListOf(m, 100)>> : n \in 0..MaxPageRows, m \in 0..MaxPageRows}

PageSizeInputs == 1..MaxPageSize

FetchAtMostInputs == (0..MaxCeiling) \cup {FetchAtMost}

DelayInputs == {0, 50}

\* count callbacks: the length of the first list, or the lengths of all lists
CountInputs == {"number", "array"}

NoPagCall == [source |-> <<>>, endless |-> FALSE, pageSize |-> 0, fetchAtMost |-> 0,
              delay |-> 0, count |-> "none"]

NoPagLocals == [results |-> <<>>, offset |-> 0, fetched |-> 0]

\* fetchPage({ offset, limit }) of a source that answers
fetchPage(source, offset, limit) ==
  [j \in DOMAIN source |-> PageOf(source[j], offset, limit)]

\* a source that has a full page at every offset: its lists never end
EndlessSources == {<<ListOf(0, 0)>>, <<ListOf(0, 0), ListOf(0, 100)>>}

\* the page that the source of the call returns
PageOfCall(call, offset, limit) ==
  IF call.endless
  THEN [j \in DOMAIN call.source |-> [i \in 1..limit |-> 100 * (j - 1) + offset + i]]
  ELSE fetchPage(call.source, offset, limit)

\* count(res): a number or an array of numbers
count(res, kind) ==
  IF kind = "number" THEN [isArray |-> FALSE, n |-> Len(res[1]), counts |-> <<>>]
  ELSE [isArray |-> TRUE, n |-> 0, counts |-> [j \in DOMAIN res |-> Len(res[j])]]

RECURSIVE MathMax(_)
MathMax(counts) ==
  IF counts = <<>> THEN NegInfinity
  ELSE LET m == MathMax(Tail(counts)) IN IF Head(counts) > m THEN Head(counts) ELSE m

\* the first signal of several governing alone
resCountOf_FirstSignal(resCountOrCounts) ==
  IF resCountOrCounts.isArray
  THEN (IF resCountOrCounts.counts = <<>> THEN 0 ELSE resCountOrCounts.counts[1])
  ELSE resCountOrCounts.n

\* Array.isArray(c) ? Math.max(...c) || 0 : c
resCountOf(resCountOrCounts) ==
  IF resCountOrCounts.isArray
  THEN (IF MathMax(resCountOrCounts.counts) = 0 THEN 0
        ELSE MathMax(resCountOrCounts.counts))
  ELSE resCountOrCounts.n

\* the merge of the callers: the list that is counted (the first of the
\* response) is followed by its continuation, every other field of the
\* response is that of the first page
mergePages(a, b) == [j \in DOMAIN a |-> IF j = 1 THEN a[j] \o b[j] ELSE a[j]]

RECURSIVE FoldPages(_, _, _)
FoldPages(res, results, i) ==
  IF i > Len(results) THEN res
  ELSE FoldPages(mergePages(res, results[i]), results, i + 1)

\* the end of paginate returning its last page only
PaginateEnd_ReturnsLast(results) ==
  IF Len(results) = 0 THEN [pc |-> "threw", res |-> <<>>]
  ELSE [pc |-> "returned", res |-> results[Len(results)]]

\* the end of paginate returning an empty value for no page
PaginateEnd_ReturnsEmpty(results) ==
  IF Len(results) = 0 THEN [pc |-> "returned", res |-> <<>>]
  ELSE [pc |-> "returned", res |-> FoldPages(results[1], results, 2)]

\* the statements after the loop
PaginateEnd(results) ==
  IF Len(results) = 0 THEN [pc |-> "threw", res |-> <<>>]
  ELSE [pc |-> "returned", res |-> FoldPages(results[1], results, 2)]

\* the loop going on whatever has been fetched
WhileCondition_NoCeiling(fetched, fetchAtMost) == TRUE

\* while (fetched < fetchAtMost)
WhileCondition(fetched, fetchAtMost) == fetched < fetchAtMost

\* the offset left where it was
NextOffset_Stays(offset, pageSize) == offset

\* offset += pageSize
NextOffset(offset, pageSize) == offset + pageSize

\* from the loop condition to the next await: a page is requested, or the
\* loop is left and the call ends
LoopHead(locals, call) ==
  IF WhileCondition(locals.fetched, call.fetchAtMost)
  THEN /\ pagPc' = "fetching"
       /\ pagLog' = Append(pagLog, [offset |-> locals.offset,
                                    limit |-> call.pageSize])
       /\ pagRes' = pagRes
  ELSE /\ pagPc' = PaginateEnd(locals.results).pc
       /\ pagRes' = PaginateEnd(locals.results).res
       /\ pagLog' = pagLog

\* paginate is called
Paginate(source, endless, pageSize, fetchAtMost, delay, kind) ==
  /\ pagPc = "idle"
  /\ kind = "number" => Len(source) > 0
  /\ endless => source \in EndlessSources /\ fetchAtMost <= MaxCeiling
  /\ pagCall' = [source |-> source, endless |-> endless, pageSize |-> pageSize,
                 fetchAtMost |-> fetchAtMost, delay |-> delay, count |-> kind]
  /\ pagLocals' = NoPagLocals
  /\ LoopHead(NoPagLocals, [pageSize |-> pageSize, fetchAtMost |-> fetchAtMost])
  /\ UNCHANGED <<sessionVars, reconVars, normVars>>

\* the awaited page arrives: the rest of the loop body, then either the end
\* of the call, the delay, or the next request
FetchPageResolves ==
  /\ pagPc = "fetching"
  /\ LET res      == PageOfCall(pagCall, pagLocals.offset, pagCall.pageSize)
         results  == Append(pagLocals.results, res)
         resCount == resCountOf(count(res, pagCall.count))
         next     == [results |-> results,
                      offset  |-> NextOffset(pagLocals.offset, pagCall.pageSize),
                      fetched |-> pagLocals.fetched + resCount]
     IN IF resCount < pagCall.pageSize
        THEN /\ pagLocals' = [pagLocals EXCEPT !.results = results]
             /\ pagPc' = PaginateEnd(results).pc
             /\ pagRes' = PaginateEnd(results).res
             /\ pagLog' = pagLog
        ELSE /\ pagLocals' = next
             /\ IF pagCall.delay > 0
                THEN pagPc' = "delay" /\ UNCHANGED <<pagRes, pagLog>>
                ELSE LoopHead(next, pagCall)
  /\ UNCHANGED <<sessionVars, reconVars, normVars, pagCall>>

\* the timer re-armed instead of letting the loop go on
DelayElapsed_WaitsAgain ==
  /\ pagPc = "delay"
  /\ UNCHANGED vars

\* the timer of the delay fires
DelayElapsed ==
  /\ pagPc = "delay"
  /\ LoopHead(pagLocals, pagCall)
  /\ UNCHANGED <<sessionVars, reconVars, normVars, pagCall, pagLocals>>

\* the awaited page request is rejected: the rejection leaves paginate
FetchPageRejects ==
  /\ pagPc = "fetching"
  /\ pagPc' = "rejected"
  /\ UNCHANGED <<sessionVars, reconVars, normVars, pagCall, pagLocals, pagRes, pagLog>>

----------------------------------------------------------------------------
(* The normaliser called again and again in one process                    *)

\* the balance the indexer holds from the start: the claim of the strategy on
\* the manager
RepeatHeld == {r \in Range(BalanceMenu) : r.token = "0xm" /\ r.account = "0xS"}

\* the balance the indexer comes to hold while the calls are repeated: shares of
\* the vault, fewer than the higher balance floor
RepeatRows == {r \in Range(BalanceMenu) :
                 r.token = "0xv" /\ r.account = "0xH2" /\ r.amount = 2}

NoOther == [pc |-> "idle", call |-> NoCall, pg |-> PgStart, outcome |-> "none",
            result |-> <<>>]

\* the calls that have begun and have not returned
CallsInFlight == (IF normPc = "idle" THEN 0 ELSE 1) + (IF normOther.pc = "idle" THEN 0 ELSE 1)

\* a call of the normaliser in a process that has served earlier calls and may
\* be serving another one: up to the first request of its balances
NormalizeAgain(config, balanceGt, targetBlock) ==
  /\ BagCardinality(normHistory) + CallsInFlight < MaxCalls
  /\ UNCHANGED <<normLookup, normHistory, cacheStore, httpReply, httpPending>>
  /\ IF normPc = "idle"
     THEN Normalize(config, balanceGt, targetBlock) /\ UNCHANGED normOther
     ELSE /\ normOther.pc = "idle"
          /\ globalSdk' = getGlobalSdk(globalSdk).globalSdk
          /\ normOther' = [NoOther EXCEPT
                             !.pc = "paging",
                             !.call = [NormalizerCall(config, balanceGt, targetBlock)
                                         EXCEPT !.sdk = getGlobalSdk(globalSdk).sdk]]
          /\ normFetches' = normFetches + 1
          /\ UNCHANGED <<pagVars, reconVars, balVars, normCall, normPc,
                         normPg, normLocals, normResult, normOutcome>>

\* the request of a page of the second call
BalancePageOther ==
  /\ normOther.pc = "paging"
  /\ LET p   == PaginateBalanceAtBlock(normOther.pg,
                                       FetchPage(normOther.call, normOther.pg.offset))
         end == AfterBalances(normOther.call, p.results)
     IN normOther' = IF normOther.call.sdk = "null"
                     THEN [normOther EXCEPT !.pc = "over", !.outcome = "TypeError",
                                            !.call.seen = SourceNow]
                     ELSE IF p.finished
                     THEN [normOther EXCEPT !.pc = "over", !.pg = p,
                                            !.outcome = end.outcome, !.result = end.result,
                                            !.call.seen = SourceNow]
                     ELSE [normOther EXCEPT !.pg = p]
  /\ UNCHANGED <<sessionVars, pagVars, reconVars, balVars, normCall,
                 normPc, normPg, normLocals, normResult, normOutcome, normLookup,
                 normFetches>>

\* what stays of a call that is over: its arguments, the changes of the
\* source while it fetched its pages, the source at its last request, and what
\* its caller got
ReturnedCall(call, callOutcome, result) ==
  [config |-> call.config, balanceGt |-> call.balanceGt, targetBlock |-> call.targetBlock,
   moved |-> call.moved, seen |-> call.seen, outcome |-> callOutcome, result |-> result]

\* the call is over: its locals are gone, its caller has the result
CallReturns ==
  /\ normPc = "over"
  /\ normHistory' = normHistory (+) SetToBag({ReturnedCall(normCall, normOutcome, normResult)})
  /\ normCall' = NoCall
  /\ normPc' = "idle"
  /\ normPg' = PgStart
  /\ normLocals' = NoLocals
  /\ normResult' = <<>>
  /\ normOutcome' = "none"
  /\ UNCHANGED <<pagVars, reconVars, balVars, normLookup, normFetches,
                 normOther, globalSdk, cacheStore, httpReply, httpPending>>

CallReturnsOther ==
  /\ normOther.pc = "over"
  /\ normHistory' = normHistory (+)
                      SetToBag({ReturnedCall(normOther.call, normOther.outcome, normOther.result)})
  /\ normOther' = NoOther
  /\ UNCHANGED <<pagVars, reconVars, balVars, normCall, normPc, normPg,
                 normLocals, normResult, normOutcome, normLookup, normFetches, globalSdk,
                 cacheStore, httpReply, httpPending>>

----------------------------------------------------------------------------
(* The v1 routes and their cache                                           *)

ChainInputs == {"arbitrum"}

RouteVaultIdInputs == {"layered", "layered-rp", "layered-vault", "nope"}

\* the addresses of the routes by address: the vault address of the manager
\* vault, and a strategy address of one vault only
RouteAddressInputs == {"0xM", "0xMS"}

BlockNumberInputs == {"100"}

\* the query parameter include_eol as sent
IncludeEolInputs == {"absent", "false", "true"}

\* the querystring schema Type.Optional(Type.Boolean({ default: false })): the
\* text of the parameter becomes a boolean, an absent parameter becomes false
QueryIncludeEol(sent) == [type |-> "boolean", text |-> "", bool |-> sent = "true"]

NoReply == [route |-> "none", params |-> <<>>, code |-> 0, body |-> <<>>]

\* s.replace(/-(suffix|...)$/, '')
replaceSuffix(s, suffixes) ==
  LET EndsWith(suffix) ==
        /\ Len(s) >= Len(suffix)
        /\ SubSeq(s, Len(s) - Len(suffix) + 1, Len(s)) = suffix
  IN IF \E x \in suffixes : EndsWith("-" \o x)
     THEN LET x == CHOOSE y \in suffixes : EndsWith("-" \o y)
          IN SubSeq(s, 1, Len(s) - Len(x) - 1)
     ELSE s

\* BigInt(digits)
BigInt(digits) ==
  CASE digits = "0" -> 0 [] digits = "5" -> 5 [] digits = "100" -> 100

\* balance_gt ? BigInt(balance_gt) : 0n
BalanceGtOf(balance_gt) == IF balance_gt = "undefined" THEN 0 ELSE BigInt(balance_gt)

\* include_eol ? ... : ...  on the value the handler reads: a boolean counts as
\* itself, a text counts as true unless it is empty
IncludeEolOf(include_eol) ==
  IF include_eol.type = "boolean" THEN include_eol.bool ELSE include_eol.text # ""

\* `vault:${chain}:${vault_id}:${block_number}:${balance_gt}:holders`
HoldersKey(chain, vault_id, block_number, balance_gt) ==
  "vault:" \o chain \o ":" \o vault_id \o ":" \o block_number \o ":" \o balance_gt \o ":holders"

\* `config:${chain}`
ConfigKey(chain) == "config:" \o chain

\* `camelot:config:${chain}`
CamelotConfigKey(chain) == "camelot:config:" \o chain

\* the value a call of a holders function returns: the function, the
\* configurations it works on and its other arguments stand for it
HoldersResult(fn, configs, block, balanceGt) ==
  [fn |-> fn, configs |-> configs, block |-> block, balanceGt |-> balanceGt]

\* the vaults of the registry of a chain
ChainVaults(chain) ==
  IF chain = "arbitrum"
  THEN << [id |-> "camelot-a", status |-> "active", is_active |-> TRUE,
           underlyingPlatform |-> "camelot", protocol_type |-> "beefy",
           vault_address |-> "0xV"],
          [id |-> "camelot-old", status |-> "eol", is_active |-> FALSE,
           underlyingPlatform |-> "camelot", protocol_type |-> "beefy",
           vault_address |-> "0xB"],
          [id |-> "clm-on-m", status |-> "active", is_active |-> TRUE,
           underlyingPlatform |-> "camelot", protocol_type |-> "beefy_clm_vault",
           vault_address |-> "0xRP", beefy_clm_manager |-> [vault_address |-> "0xM"]],
          [id |-> "m", status |-> "active", is_active |-> TRUE,
           underlyingPlatform |-> "camelot", protocol_type |-> "beefy",
           vault_address |-> "0xm"],
          [id |-> "bal-m", status |-> "active", is_active |-> TRUE,
           underlyingPlatform |-> "balancer", protocol_type |-> "beefy",
           vault_address |-> "0xM"] >>
  ELSE << [id |-> "aero-a", status |-> "active", is_active |-> TRUE,
           underlyingPlatform |-> "aerodrome", protocol_type |-> "beefy",
           vault_address |-> "0xV"] >>

\* getBeefyVaultConfig(chain, vault => include_eol ? true : vault.status === 'active')
VaultsResult(chain, include_eol) ==
  SelectSeq(ChainVaults(chain), LAMBDA vault : include_eol \/ vault.status = "active")

\* the configurations of camelot without the manager vaults that a vault sits on
BundlesResult(chain, include_eol) ==
  LET configs == SelectSeq(ChainVaults(chain),
                           LAMBDA vault : /\ (include_eol \/ vault.is_active)
                                          /\ vault.underlyingPlatform = "camelot")
      clmVaultAddresses ==
        {ToLower(configs[i].beefy_clm_manager.vault_address) :
           i \in {j \in 1..Len(configs) : configs[j].protocol_type = "beefy_clm_vault"}}
  IN SelectSeq(configs, LAMBDA vault : ToLower(vault.vault_address) \notin clmVaultAddresses)

\* getBeefyVaultConfig(chain, vault => vault.protocol_type === 'balancer_aura' ||
\* vault.underlyingPlatform === 'balancer')
BalancerVaults(chain) ==
  SelectSeq(ChainVaults(chain),
            LAMBDA vault : vault.protocol_type = "balancer_aura"
                             \/ vault.underlyingPlatform = "balancer")

\* the configurations that the holders function of a route asks the registry for
RouteConfigs(route, params) ==
  CASE route = "share-tokens-balances" -> ConfigsByVaultIdPrefix(params.vault_id)
    [] route = "bundle-holder-share" -> ConfigsByVaultId(params.vault_id)
    [] route = "bundle-holder-share-by-vault-address" ->
         ConfigsByVaultAddress(params.vault_address)
    [] route = "bundle-holder-share-by-strategy-address" ->
         ConfigsByStrategyAddress(params.strategy_address)

\* asyncCache.wrap(key, ttlMs, fn) when fn has returned: the value is kept
\* under the key
wrap(store, key, value) ==
  [k \in (DOMAIN store) \cup {key} |-> IF k = key THEN value ELSE store[k]]

\* reply.send(result), and reply.send({ chains: result }) of latest-balances
SendBody(route, result) ==
  IF route = "latest-balances" THEN [chains |-> result] ELSE result

\* the routes whose function takes the client and asks the source at once
SourceRoutes ==
  {"contract-share-tokens-balances", "top-holders", "counts-all", "latest-balances", "status"}

\* the routes whose function is an entry point of the normaliser
NormalizerRoutes ==
  {"bundle-holder-share", "bundle-holder-share-by-vault-address",
   "bundle-holder-share-by-strategy-address"}

\* the handler of a route up to its await: it redirects, or asyncCache.wrap
\* finds the value under the key and the handler sends it, or the function of
\* the route is started, runs up to its first await, and the handler waits
\* for it
RouteReplies(route, params, redirectTo, key) ==
  /\ IF redirectTo # ""
     THEN /\ httpReply' = [route |-> route, params |-> params, code |-> 301,
                           body |-> redirectTo]
          /\ UNCHANGED <<httpPending, globalSdk>>
     ELSE IF key \in DOMAIN cacheStore
     THEN /\ httpReply' = [route |-> route, params |-> params, code |-> 200,
                           body |-> SendBody(route, cacheStore[key])]
          /\ UNCHANGED <<httpPending, globalSdk>>
     ELSE /\ Cardinality(httpPending) < MaxPending
          /\ \A p \in httpPending : p.route # route \/ p.params # params
          /\ httpPending' = httpPending \cup
                              {[route |-> route, params |-> params, key |-> key,
                                awaits |-> IF route \in SourceRoutes THEN "balances"
                                           ELSE "configs"]}
          /\ globalSdk' = IF route \in SourceRoutes
                          THEN getGlobalSdk(globalSdk).globalSdk
                          ELSE globalSdk
          /\ UNCHANGED httpReply
  /\ UNCHANGED <<cacheStore, normHistory, pagVars, reconVars, normVars>>

\* GET /:chain/:vault_id/:block_number/share-tokens-balances
ShareTokensBalances(chain, input_vault_id, block_number, balance_gt) ==
  LET vault_id == replaceSuffix(input_vault_id, {"rp", "vault"})
  IN RouteReplies("share-tokens-balances",
       [chain |-> chain, vault_id |-> input_vault_id, block_number |-> block_number,
        balance_gt |-> balance_gt],
       IF vault_id # input_vault_id
       THEN "/api/v1/vault/" \o chain \o "/" \o vault_id \o "/" \o block_number
              \o "/share-tokens-balances"
       ELSE "",
       HoldersKey(chain, vault_id, block_number, balance_gt))

\* GET /:chain/:vault_id/:block_number/bundle-holder-share
BundleHolderShare(chain, input_vault_id, block_number, balance_gt) ==
  LET base_vault_id == replaceSuffix(input_vault_id, {"rp"})
  IN RouteReplies("bundle-holder-share",
       [chain |-> chain, vault_id |-> input_vault_id, block_number |-> block_number,
        balance_gt |-> balance_gt],
       IF base_vault_id # input_vault_id
       THEN "/api/v1/vault/" \o chain \o "/" \o base_vault_id \o "/" \o block_number
              \o "/bundle-holder-share"
       ELSE "",
       HoldersKey(chain, base_vault_id, block_number, balance_gt))

\* GET /:chain/:vault_address/:block_number/bundle-holder-share-by-vault-address
BundleHolderShareByVaultAddress(chain, vault_address, block_number, balance_gt) ==
  RouteReplies("bundle-holder-share-by-vault-address",
    [chain |-> chain, vault_address |-> vault_address, block_number |-> block_number,
     balance_gt |-> balance_gt],
    "", HoldersKey(chain, ToLower(vault_address), block_number, balance_gt))

\* GET /:chain/:strategy_address/:block_number/bundle-holder-share-by-strategy-address
BundleHolderShareByStrategyAddress(chain, strategy_address, block_number, balance_gt) ==
  RouteReplies("bundle-holder-share-by-strategy-address",
    [chain |-> chain, strategy_address |-> strategy_address,
     block_number |-> block_number, balance_gt |-> balance_gt],
    "", HoldersKey(chain, ToLower(strategy_address), block_number, balance_gt))

\* GET /:chain/vaults
ConfigVaults(chain, include_eol) ==
  RouteReplies("vaults", [chain |-> chain, include_eol |-> QueryIncludeEol(include_eol)],
               "", ConfigKey(chain))

\* GET /config/:chain/bundles of camelot
ConfigBundles(chain, include_eol) ==
  RouteReplies("bundles", [chain |-> chain, include_eol |-> QueryIncludeEol(include_eol)],
               "", CamelotConfigKey(chain))

\* GET /config/:chain/:block_number/bundles of balancer
BalancerBundles(chain, block_number) ==
  RouteReplies("balancer-bundles", [chain |-> chain, block_number |-> block_number],
               "", "balancer:config:" \o chain \o ":" \o block_number)

\* GET /:chain/:contract_address/:block_number/share-tokens-balances
ContractShareTokensBalances(chain, input_contract_address, block_number) ==
  RouteReplies("contract-share-tokens-balances",
    [chain |-> chain, contract_address |-> input_contract_address,
     block_number |-> block_number],
    "",
    "contract:" \o chain \o ":" \o ToLower(input_contract_address) \o ":" \o block_number
      \o ":holders")

\* GET /:chain/top-holders; limit is the text of the number
TopHolders(chain, contract_addresses, limit) ==
  LET RECURSIVE join(_)
      join(s) == IF Len(s) = 1 THEN s[1] ELSE s[1] \o "," \o join(Tail(s))
      params == [chain |-> chain, contract_addresses |-> contract_addresses,
                 limit |-> limit]
  IN IF contract_addresses = <<>>
     THEN /\ httpReply' = [route |-> "top-holders", params |-> params, code |-> 500,
                           body |-> [error |-> "FriendlyError"]]
          /\ UNCHANGED <<httpPending, cacheStore, globalSdk, normHistory, pagVars,
                         reconVars, normVars>>
     ELSE RouteReplies("top-holders", params, "",
            "vault:" \o chain \o ":" \o ToLower(join(contract_addresses))
              \o ":top-holders:" \o limit)

\* GET /counts/all
HoldersCountsAll ==
  RouteReplies("counts-all", <<>>, "", "holder-count:all")

\* GET /:address/latest-balances
LatestBalances(address) ==
  RouteReplies("latest-balances", [address |-> address], "",
               "latest-balances:" \o ToLower(address))

\* GET of the status
Status ==
  RouteReplies("status", <<>>, "", "status")

\* what the function of a request returns when it returns
OwnResult(route, params) ==
  CASE route = "share-tokens-balances" ->
         HoldersResult("getVaultHolders", RouteConfigs(route, params),
                       BigInt(params.block_number), BalanceGtOf(params.balance_gt))
    [] route \in NormalizerRoutes ->
         HoldersResult("_getVaultHoldersAsBaseVaultEquivalent", RouteConfigs(route, params),
                       BigInt(params.block_number), BalanceGtOf(params.balance_gt))
    [] route = "vaults" -> VaultsResult(params.chain, IncludeEolOf(params.include_eol))
    [] route = "bundles" -> BundlesResult(params.chain, IncludeEolOf(params.include_eol))
    [] route = "balancer-bundles" ->
         LET configs == BalancerVaults(params.chain)
         IN [i \in 1..Len(configs) |->
               [vault_config |-> configs[i],
                holders |-> HoldersResult("_getVaultHoldersAsBaseVaultEquivalent",
                                          ConfigsByVaultAddress(configs[i].vault_address),
                                          BigInt(params.block_number), 0)]]
    [] route = "contract-share-tokens-balances" ->
         [fn |-> "getContractHolders", chainId |-> params.chain,
          token |-> getTokenId(params.contract_address),
          block |-> BigInt(params.block_number)]
    [] route = "top-holders" ->
         [fn |-> "getTopContractHolders", chainId |-> params.chain,
          token_in |-> [i \in DOMAIN params.contract_addresses |->
                          getTokenId(params.contract_addresses[i])],
          limit |-> params.limit]
    [] route = "counts-all" -> [fn |-> "getHolderCount"]
    [] route = "latest-balances" -> [fn |-> "getLatestBalances", address |-> params.address]
    [] route = "status" -> [fn |-> "getStatus"]

\* the function has returned: wrap keeps the value under the key and the
\* handler sends it
FunctionReturns(p) ==
  /\ p.key \in DOMAIN cacheStore \/ Cardinality(DOMAIN cacheStore) < MaxCached
  /\ cacheStore' = wrap(cacheStore, p.key, OwnResult(p.route, p.params))
  /\ httpReply' = [route |-> p.route, params |-> p.params, code |-> 200,
                   body |-> SendBody(p.route, OwnResult(p.route, p.params))]
  /\ httpPending' = httpPending \ {p}

\* the function has thrown: nothing is kept, the handler sends nothing and the
\* error handler of the server replies with the name of the error,
\* reply.status(error.statusCode || 500).send({ error: error.name }), as it
\* does unless API_ENV is 'development'; none of the errors has a statusCode
FunctionThrows(p, name) ==
  /\ httpReply' = [route |-> p.route, params |-> p.params, code |-> 500,
                   body |-> [error |-> name]]
  /\ httpPending' = httpPending \ {p}
  /\ UNCHANGED cacheStore

\* the request to the registry that the function of a request awaits is
\* answered or refused. A rejection is an Error. A configuration route
\* returns what it got; getVaultHolders takes the client and throws if it has
\* no token; an entry point of the normaliser throws unless one vault matches
\* and takes the client; the balancer route returns without vaults, and else
\* calls the entry point by vault address for every vault. Then the balances
\* are awaited.
ConfigsAnswer(p, refused) ==
  LET Awaits(what) ==
        /\ httpPending' = (httpPending \ {p}) \cup {[p EXCEPT !.awaits = what]}
        /\ UNCHANGED <<cacheStore, httpReply>>
      client == getGlobalSdk(globalSdk).globalSdk
      vaults == BalancerVaults(p.params.chain)
      found(i) == ResolveOutcome(ConfigsByVaultAddress(vaults[i].vault_address)) = "ok"
  IN /\ p \in httpPending
     /\ p.awaits \in {"configs", "vault-configs"}
     /\ UNCHANGED <<normHistory, pagVars, reconVars, normVars>>
     /\ IF refused
        THEN FunctionThrows(p, "Error") /\ UNCHANGED globalSdk
        ELSE IF p.route \in {"vaults", "bundles"}
        THEN FunctionReturns(p) /\ UNCHANGED globalSdk
        ELSE IF p.route = "share-tokens-balances"
        THEN /\ globalSdk' = client
             /\ IF RouteConfigs(p.route, p.params) = <<>>
                THEN FunctionThrows(p, "FriendlyError")
                ELSE Awaits("balances")
        ELSE IF p.route = "balancer-bundles" /\ p.awaits = "configs"
        THEN /\ UNCHANGED globalSdk
             /\ IF vaults = <<>> THEN FunctionReturns(p) ELSE Awaits("vault-configs")
        ELSE IF p.route = "balancer-bundles"
        THEN /\ globalSdk' = IF \E i \in DOMAIN vaults : found(i) THEN client ELSE globalSdk
             /\ IF \A i \in DOMAIN vaults : found(i)
                THEN Awaits("balances")
                ELSE FunctionThrows(p, "FriendlyError")
        ELSE IF ResolveOutcome(RouteConfigs(p.route, p.params)) # "ok"
        THEN FunctionThrows(p, "FriendlyError") /\ UNCHANGED globalSdk
        ELSE globalSdk' = client /\ Awaits("balances")

\* the names of the errors that the function of a request can end with while
\* it awaits the source: an Error when a request is refused; a FriendlyError
\* of getTokenBalancesAtBlock, of the metadata checks or of the checks of the
\* contract route; a RangeError when the normaliser of a layered vault divides
\* by a supply of zero
Throwable(p) ==
  LET configs == IF p.route = "balancer-bundles"
                 THEN {ConfigsByVaultAddress(v.vault_address)[1] :
                         v \in Range(BalancerVaults(p.params.chain))}
                 ELSE IF p.route \in NormalizerRoutes
                 THEN {RouteConfigs(p.route, p.params)[1]}
                 ELSE {}
  IN {"Error"}
       \cup (IF p.route \in {"counts-all", "latest-balances", "status"}
             THEN {} ELSE {"FriendlyError"})
       \cup (IF \E config \in configs : IsClm(config) THEN {"RangeError"} ELSE {})

\* the function of a request that awaits the source returns or throws
BalancesAnswer(p, ending) ==
  /\ p \in httpPending
  /\ p.awaits = "balances"
  /\ ending \in {"returned"} \cup Throwable(p)
  /\ IF ending = "returned" THEN FunctionReturns(p) ELSE FunctionThrows(p, ending)
  /\ UNCHANGED <<globalSdk, normHistory, pagVars, reconVars, normVars>>

\* the time to live of an entry is over
CacheExpires(key) ==
  /\ key \in DOMAIN cacheStore
  /\ cacheStore' = [k \in (DOMAIN cacheStore) \ {key} |-> cacheStore[k]]
  /\ UNCHANGED <<httpReply, httpPending, globalSdk, normHistory, pagVars, reconVars, normVars>>

----------------------------------------------------------------------------
\* the process starts; the indexer holds the balances `held', recorded in the
\* block it has processed
InitWith(held) ==
  /\ height = 0
  /\ chainBal = [p \in Range(SrcPairs) |-> DZero]
  /\ srcChanges = <<>>
  /\ srcSnapshots = <<>>
  /\ pc = "idle"
  /\ req = NoReq
  /\ pg = PgStart
  /\ rejected = "none"
  /\ lastSnapshotRes = [TokenBalanceSnapshot |-> <<>>, progressBlock |-> 0]
  /\ tokenMetadata = <<>>
  /\ lastSnapshotBlock = 0
  /\ balanceSnapshots = <<>>
  /\ changesMerged = <<>>
  /\ balances = EmptyBalances
  /\ outcome = "none"
  /\ srcTokenBalance = held
  /\ srcToken = TokenRows
  /\ srcProgress = 1
  /\ srcLastChange = [r \in held |-> 1]
  /\ normCall = NoCall
  /\ normPc = "idle"
  /\ normPg = PgStart
  /\ normOther = NoOther
  /\ normLocals = NoLocals
  /\ normResult = <<>>
  /\ normOutcome = "none"
  /\ normLookup = NoLookup
  /\ normFetches = 0
  /\ pagCall = NoPagCall
  /\ pagLocals = NoPagLocals
  /\ pagPc = "idle"
  /\ pagRes = <<>>
  /\ pagLog = <<>>
  /\ globalSdk = "null"
  /\ normHistory = EmptyBag
  /\ cacheStore = <<>>
  /\ httpReply = NoReply
  /\ httpPending = {}

Init == InitWith({})

Next ==
  \/ \E m \in ChainMoves : IndexChange(m[1], m[2], m[3])
  \/ IndexSnapshot
  \/ \E b \in 1..(height + 1), ta \in TokenAddressInputs, ex \in ExcludeInputs :
       Request(b, ta, ex)
  \/ LookupAnswer
  \/ MetadataPage
  \/ SnapshotPage
  \/ ChangesPage
  \/ \E which \in {"lookup", "page"} : SourceFailure(which)
  \/ MetadataPageAfterFailure

Spec == Init /\ [][Next]_vars

\* the holdings normaliser on the balances of the indexing service
NextNorm ==
  \/ \E r \in Range(BalanceMenu) : IndexBalance(r)
  \/ \E c \in VaultConfigs, gt \in BalanceGtInputs, b \in TargetBlockInputs :
       /\ normPc = "idle"
       /\ Normalize(c, gt, b)
       /\ UNCHANGED <<normLookup, normOther, normHistory, cacheStore, httpReply, httpPending>>
  \/ BalancePage

SpecNorm == Init /\ [][NextNorm]_vars

\* the entry points of the normaliser on a source of few balances
NextEntry ==
  \/ \E r \in Range(BalanceMenu) :
       IndexBalance(r) /\ Cardinality(srcTokenBalance) < MaxEntryRows
  \/ \E t \in DefectTokens, kind \in DefectKinds : IndexDefect(t, kind)
  \/ \E a \in VaultAddressInputs, gt \in BalanceGtInputs, b \in TargetBlockInputs :
       getVaultHoldersAsBaseVaultEquivalentForVaultAddress(a, gt, b)
  \/ \E a \in StrategyAddressInputs, gt \in BalanceGtInputs, b \in TargetBlockInputs :
       getVaultHoldersAsBaseVaultEquivalentForStrategyAddress(a, gt, b)
  \/ \E id \in VaultIdInputs, gt \in BalanceGtInputs, b \in TargetBlockInputs :
       getVaultHoldersAsBaseVaultEquivalentForVaultId(id, gt, b)
  \/ \E id \in VaultIdPrefixInputs, gt \in BalanceGtInputs, b \in TargetBlockInputs :
       getVaultHolders(id, gt, b)
  \/ ConfigsResolve
  \/ BalancePage

SpecEntry == Init /\ [][NextEntry]_vars

\* the normaliser called several times, two calls at a time, for target blocks
\* on either side of the progress of the indexer, while the source goes on
NextRepeat ==
  \/ \E r \in RepeatRows : RecordBalance(r)
  \/ IndexBlock
  \/ \E c \in VaultConfigs, gt \in BalanceGtInputs, b \in TargetBlockInputs :
       NormalizeAgain(c, gt, b)
  \/ BalancePage
  \/ BalancePageOther
  \/ CallReturns
  \/ CallReturnsOther

SpecRepeat == InitWith(RepeatHeld) /\ [][NextRepeat]_vars

\* requests to the routes in any order, with balance_gt=5 to the routes by
\* vault id and without balance_gt to the routes by address, while the registry
\* and the source answer or reject and entries of the cache expire
NextCache ==
  \/ \E chain \in ChainInputs, id \in RouteVaultIdInputs, block \in BlockNumberInputs :
       \/ ShareTokensBalances(chain, id, block, "5")
       \/ BundleHolderShare(chain, id, block, "5")
  \/ \E chain \in ChainInputs, address \in RouteAddressInputs, block \in BlockNumberInputs :
       \/ BundleHolderShareByVaultAddress(chain, address, block, "undefined")
       \/ BundleHolderShareByStrategyAddress(chain, address, block, "undefined")
  \/ \E chain \in ChainInputs, eol \in IncludeEolInputs :
       \/ ConfigVaults(chain, eol)
       \/ ConfigBundles(chain, eol)
  \/ \E chain \in ChainInputs, block \in BlockNumberInputs :
       \/ BalancerBundles(chain, block)
       \/ ContractShareTokensBalances(chain, "0xV", block)
       \/ TopHolders(chain, <<"0xV", "0xM">>, "100")
  \/ HoldersCountsAll
  \/ LatestBalances("0xh1")
  \/ Status
  \/ \E p \in httpPending, refused \in BOOLEAN : ConfigsAnswer(p, refused)
  \/ \E p \in httpPending, ending \in {"returned", "FriendlyError", "RangeError", "Error"} :
       BalancesAnswer(p, ending)
  \/ \E key \in DOMAIN cacheStore : CacheExpires(key)

SpecCache == Init /\ [][NextCache]_vars

\* paginate called with any arguments on a source that does not change
NextPage ==
  \/ \E src \in SourceInputs, e \in BOOLEAN, ps \in PageSizeInputs,
        fam \in FetchAtMostInputs, d \in DelayInputs, k \in CountInputs :
       Paginate(src, e, ps, fam, d, k)
  \/ FetchPageResolves
  \/ DelayElapsed
  \/ FetchPageRejects

SpecPage == Init /\ [][NextPage]_vars

\* every awaited answer arrives and every timer fires
SpecPageLive ==
  Init /\ [][NextPage]_vars /\ WF_vars(FetchPageResolves) /\ WF_vars(DelayElapsed)

----------------------------------------------------------------------------
(* Properties of the reconstruction                                        *)

Finished == pc \in {"done", "failed"}

\* the call ended on its own checks, not on a rejected request or bad input
Decided == Finished /\ outcome \notin {"SourceError", "NoTokenAddresses"}

SnapshotsAtOrBefore == {b \in SnapshotBlocks : b <= req.targetBlock}

NoSnapshotAtOrBefore == SnapshotsAtOrBefore = {}

IndexerBehind == height < req.targetBlock

\* the snapshot block the call has to choose
ChosenSnapshotBlock == Max(SnapshotsAtOrBefore)

Requested(r) == /\ r.token_id \in Range(req.tokenIn)
                /\ r.account_id \notin Range(req.accountNotIn)

InInterval(r) == r.block > ChosenSnapshotBlock /\ r.block <= req.targetBlock

RECURSIVE ExactDeltaSum(_, _)
ExactDeltaSum(rows, p) ==
  IF rows = <<>> THEN DZero
  ELSE LET r    == Head(rows)
           rest == ExactDeltaSum(Tail(rows), p)
       IN IF <<r.token_id, r.account_id>> = p /\ InInterval(r)
          THEN ExactPlus(ExactPlus(r.balanceAfter, Negate(r.balanceBefore)), rest)
          ELSE rest

SnapshotAmount(p) ==
  LET rows == SelectSeq(srcSnapshots, LAMBDA r : /\ r.blockNumber = ChosenSnapshotBlock
                                                 /\ <<r.token_id, r.account_id>> = p)
  IN IF rows = <<>> THEN DZero ELSE rows[1].amount

Occurrences(e, s) == Cardinality({i \in 1..Len(s) : s[i] = e})

Perms(s) ==
  LET n == Len(s)
  IN {[i \in 1..n |-> s[f[i]]] :
        f \in {g \in [1..n -> 1..n] : \A i, j \in 1..n : g[i] = g[j] => i = j}}

\* C1: every balance of the returned mapping equals the snapshot amount of its
\* (token, account) pair, or 0 without a snapshot row, plus the exact sum of
\* balanceAfter - balanceBefore over the changes of the pair in
\* (snapshotBlock, targetBlock].
C1_ReconstructionExact ==
  pc = "done" =>
    \A p \in DOMAIN balances :
      balances[p] = ExactPlus(SnapshotAmount(p), ExactDeltaSum(srcChanges, p))

\* C2: applying the fetched balance changes to the seeded mapping in any
\* other order gives the mapping that the call returned.
C2_OrderIndependent ==
  pc = "done" =>
    \A q \in Perms(changesMerged) :
      ReplayLoop(SeedLoop(EmptyBalances, balanceSnapshots), q) = balances

\* C3: a returned mapping is built from every requested change of the source
\* with snapshotBlock < block <= targetBlock exactly once, and from no change
\* outside that interval, however many pages the changes took.
C3_IntervalExactlyOnce ==
  pc = "done" =>
    /\ \A i \in 1..Len(srcChanges) :
         Occurrences(srcChanges[i], changesMerged) =
           IF Requested(srcChanges[i]) /\ InInterval(srcChanges[i]) THEN 1 ELSE 0
    /\ \A i \in 1..Len(changesMerged) : Occurrences(changesMerged[i], srcChanges) = 1
    /\ balances = ReplayLoop(SeedLoop(EmptyBalances, balanceSnapshots),
                             SelectSeq(srcChanges,
                                       LAMBDA r : Requested(r) /\ InInterval(r)))

\* the changes took two fetches and the source also holds requested changes
\* at or before the snapshot block and after the target block
C3_Witness ==
  /\ pc = "done"
  /\ Len(changesMerged) >= PageSize
  /\ \E i \in 1..Len(srcChanges) :
       Requested(srcChanges[i]) /\ srcChanges[i].block <= lastSnapshotBlock
  /\ \E i \in 1..Len(srcChanges) :
       Requested(srcChanges[i]) /\ srcChanges[i].block > req.targetBlock

\* C4 as stated: without a snapshot at or before the target block the call
\* ends with the missing-snapshot error.
C4_AlwaysMissingSnapshotError ==
  (Decided /\ NoSnapshotAtOrBefore) => (pc = "failed" /\ outcome = "NoDailySnapshot")

\* C4 amended: without a snapshot at or before the target block the call never
\* gets past its checks and never returns; it ends with the missing-snapshot
\* error when the indexer has reached the target block and with the
\* indexer-not-caught-up error when it has not.
C4_NoSnapshotNeverReturns ==
  NoSnapshotAtOrBefore =>
    /\ pc \notin {"snap", "changes", "done"}
    /\ Decided => outcome = IF IndexerBehind THEN "IndexerNotCaughtUp"
                            ELSE "NoDailySnapshot"

\* the call failed for a missing snapshot although the source holds a later one
C4_Witness ==
  /\ pc = "failed"
  /\ outcome = "NoDailySnapshot"
  /\ NoSnapshotAtOrBefore
  /\ srcSnapshots # <<>>

\* C5 as stated: a result needs the progress marker at or beyond the target
\* block, every request without a snapshot is reported as missing-snapshot and
\* every request with the marker behind as indexer-not-caught-up.
C5_BothReportedSeparately ==
  /\ pc = "done" => ~IndexerBehind
  /\ (Decided /\ NoSnapshotAtOrBefore) => outcome = "NoDailySnapshot"
  /\ (Decided /\ IndexerBehind) => outcome = "IndexerNotCaughtUp"

\* C5 amended: a result needs the progress marker at or beyond the target
\* block; a marker behind the target block is always reported as
\* indexer-not-caught-up, and missing-snapshot is reported only for a request
\* without a snapshot whose target block the indexer has reached.
C5_ProgressChecked ==
  /\ pc \in {"snap", "changes", "done"} => ~IndexerBehind
  /\ (Decided /\ IndexerBehind) => (pc = "failed" /\ outcome = "IndexerNotCaughtUp")
  /\ outcome = "NoDailySnapshot" => (NoSnapshotAtOrBefore /\ ~IndexerBehind)
  /\ outcome = "IndexerNotCaughtUp" => IndexerBehind

\* the call failed for the progress marker although a usable snapshot exists
C5_Witness ==
  /\ pc = "failed"
  /\ outcome = "IndexerNotCaughtUp"
  /\ ~NoSnapshotAtOrBefore

----------------------------------------------------------------------------
(* Properties of the holdings normaliser                                   *)

\* a call of the normaliser has returned
Returned == normOutcome = "returned" /\ normCall.fn = "_getVaultHoldersAsBaseVaultEquivalent"

\* the reconstructed balance table of the call: the rows of the pages it
\* fetched, in the order of the merge
ReconstructedRows ==
  IF normPg.results = <<>> THEN <<>>
  ELSE MergeBalanceAtBlock(normPg.results[1], normPg.results, 2).TokenBalance

\* the metadata rows of the call: those of its first page
ReconstructedTokens == IF normPg.results = <<>> THEN <<>> ELSE normPg.results[1].Token

Layered == IsClm(normCall.config)

LowerSet(S) == {ToLower(a) : a \in S}

OuterTokens(config) ==
  LowerSet({config.vault_address} \cup Range(config.reward_pools) \cup Range(config.boosts))

ManagerTokens(config) ==
  LowerSet({config.beefy_clm_manager.vault_address}
           \cup Range(config.beefy_clm_manager.reward_pools)
           \cup Range(config.beefy_clm_manager.boosts))

\* strategy addresses and constituent token addresses of a topology
OperationalAddresses(config) ==
  OuterTokens(config) \cup LowerSet({config.strategy_address})
    \cup (IF IsClm(config)
          THEN ManagerTokens(config)
                 \cup LowerSet({config.beefy_clm_manager.strategy_address})
          ELSE {})

\* the rows of the source that are holdings of holder k in the given tokens
\* with a balance above gt
IsHolding(r, k, tokens, gt) ==
  /\ ToLower(r.account) = k
  /\ ToLower(r.token) \in tokens
  /\ r.amount > gt

HoldingsOf(k, tokens, gt) ==
  SelectSeq(ReconstructedRows, LAMBDA r : IsHolding(r, k, tokens, gt))

RECURSIVE SumAmounts(_)
SumAmounts(rows) == IF rows = <<>> THEN 0 ELSE Head(rows).amount + SumAmounts(Tail(rows))

RECURSIVE SumProRata(_, _, _)
SumProRata(rows, claim, supply) ==
  IF rows = <<>> \/ supply = 0 THEN 0
  ELSE ((Head(rows).amount * claim) \div supply) + SumProRata(Tail(rows), claim, supply)

LayeredBalance(k, gt, claim, supply) ==
  SumAmounts(HoldingsOf(k, ManagerTokens(normCall.config), gt))
    + SumProRata(HoldingsOf(k, OuterTokens(normCall.config), gt), claim, supply)

\* the outer total supply of the source: the balances of the outer share token
\* of all holders but the zero address
SourceSupply ==
  SumAmounts(SelectSeq(ReconstructedRows,
                       LAMBDA r : /\ ToLower(r.token) = ToLower(normCall.config.vault_address)
                                  /\ r.account # ZeroAddress))

\* the aggregate claim of the source: the balance of the manager share token
\* of the strategy of the outer vault
SourceClaim ==
  SumAmounts(SelectSeq(ReconstructedRows,
                       LAMBDA r : /\ ToLower(r.token)
                                       = ToLower(normCall.config.beefy_clm_manager.vault_address)
                                  /\ ToLower(r.account)
                                       = ToLower(normCall.config.strategy_address)))

SimpleBalance(k, gt) == SumAmounts(HoldingsOf(k, OuterTokens(normCall.config), gt))

ResultHolders == {normResult[i].holder : i \in 1..Len(normResult)}

SourceHolders == {ToLower(r.account) : r \in Range(ReconstructedRows)}

\* the provenance of a record lists exactly the given holdings, one entry each
ProvenanceIs(details, holdings) ==
  /\ Len(details) = Len(holdings)
  /\ \A j \in 1..Len(holdings) :
       Cardinality({i \in 1..Len(details) :
                      /\ ToLower(details[i].token) = ToLower(holdings[j].token)
                      /\ details[i].balance = holdings[j].amount}) = 1

OfOuterShareToken(e) == e.hold_details[1].token = normCall.config.vault_address

\* C6: no returned record has a holder that is, compared in lower case, a
\* strategy address or a constituent token address of the topology, and none has
\* the zero address.
C6_ExclusionInvariant ==
  Returned =>
    \A i \in 1..Len(normResult) :
      /\ ToLower(normResult[i].holder) \notin OperationalAddresses(normCall.config)
      /\ normResult[i].holder # ZeroAddress

\* a layered call returned holders while the source holds balances of the zero
\* address, of the strategy and of a reward pool contract
C6_Witness ==
  /\ Returned
  /\ Layered
  /\ normResult # <<>>
  /\ \E r \in srcTokenBalance : r.account = ZeroAddress /\ r.amount > normCall.balanceGt
  /\ \E r \in srcTokenBalance : r.account = "0xS" /\ r.amount > normCall.balanceGt
  /\ \E r \in srcTokenBalance : r.account = "0xrp" /\ r.amount > normCall.balanceGt

\* C7 as stated: the converted balances of the holders of the outer share
\* token, its reward pools and its boosts sum to at most the aggregate claim.
C7_ConvertedSumAtMostClaim ==
  (Returned /\ Layered) =>
    SumBalances(normLocals.vaultManagerHolders) <= normLocals.vaultManagerShareBalance

\* C7 amended: the converted balances of the holders of the outer share token
\* sum to at most the claim, and so do those of all outer holders when their
\* raw balances together do not exceed the outer total supply.
C7_ConvertedSumBounded ==
  (Returned /\ Layered) =>
    /\ SumBalances(SelectSeq(normLocals.vaultManagerHolders, OfOuterShareToken))
         <= normLocals.vaultManagerShareBalance
    /\ SumBalances(normLocals.vaultShareHolders) <= normLocals.vaultTotalSupply
         => SumBalances(normLocals.vaultManagerHolders)
              <= normLocals.vaultManagerShareBalance

\* a positive claim is split among share-token and reward-pool holders whose
\* balances are covered by the supply
C7_Witness ==
  /\ Returned
  /\ Layered
  /\ normLocals.vaultManagerShareBalance > 0
  /\ \E i \in 1..Len(normLocals.vaultManagerHolders) :
       /\ ~OfOuterShareToken(normLocals.vaultManagerHolders[i])
       /\ normLocals.vaultManagerHolders[i].balance > 0
  /\ \E i \in 1..Len(normLocals.vaultManagerHolders) :
       OfOuterShareToken(normLocals.vaultManagerHolders[i])
  /\ SumBalances(normLocals.vaultShareHolders) <= normLocals.vaultTotalSupply

OuterHolders ==
  {normLocals.vaultShareHolders[i].holder : i \in 1..Len(normLocals.vaultShareHolders)}

\* C8 as stated: the claim exceeds the sum of the converted balances by at most
\* the number of outer holders.
C8_ShortfallAtMostHolders ==
  (Returned /\ Layered) =>
    normLocals.vaultManagerShareBalance - SumBalances(normLocals.vaultManagerHolders)
      <= Cardinality(OuterHolders)

\* C8 amended: when the raw balances of the outer holders add up to the whole,
\* non-zero outer total supply, the claim exceeds the sum of the converted
\* balances by at most the number of outer holdings (one for each holder and
\* constituent token), and never falls below it.
C8_ShortfallWhenFullyHeld ==
  (/\ Returned
   /\ Layered
   /\ normLocals.vaultTotalSupply > 0
   /\ SumBalances(normLocals.vaultShareHolders) = normLocals.vaultTotalSupply) =>
    LET shortfall == normLocals.vaultManagerShareBalance
                       - SumBalances(normLocals.vaultManagerHolders)
    IN shortfall >= 0 /\ shortfall <= Len(normLocals.vaultShareHolders)

\* the whole supply is held in two holdings of one holder and truncation
\* loses one unit
C8_Witness ==
  /\ Returned
  /\ Layered
  /\ normLocals.vaultTotalSupply > 0
  /\ SumBalances(normLocals.vaultShareHolders) = normLocals.vaultTotalSupply
  /\ Len(normLocals.vaultShareHolders) = 2
  /\ Cardinality(OuterHolders) = 1
  /\ normLocals.vaultManagerShareBalance
       - SumBalances(normLocals.vaultManagerHolders) = 1

\* C9 as stated: the balance of a returned record of a layered topology is the
\* sum of all raw manager-side balances of the holder plus the floor of
\* raw * claim / supply for each of the holder's outer-side balances.
C9_LayeredSumOfAllRawBalances ==
  (Returned /\ Layered) =>
    \A i \in 1..Len(normResult) :
      normResult[i].balance
        = LayeredBalance(normResult[i].holder, 0, normLocals.vaultManagerShareBalance,
                         SourceSupply)

\* What the layered branch returns: the same sum over the raw balances strictly
\* greater than the balance floor of the call only, with the supply counted
\* over those balances; a non-excluded holder has a record if that sum is not
\* zero.
LayeredSumAboveFloor ==
  (Returned /\ Layered) =>
    /\ \A i \in 1..Len(normResult) :
         normResult[i].balance
           = LayeredBalance(normResult[i].holder, normCall.balanceGt,
                            normLocals.vaultManagerShareBalance,
                            normLocals.vaultTotalSupply)
    /\ \A k \in SourceHolders \ OperationalAddresses(normCall.config) :
         (/\ k # ZeroAddress
          /\ LayeredBalance(k, normCall.balanceGt, normLocals.vaultManagerShareBalance,
                            normLocals.vaultTotalSupply) # 0)
           => k \in ResultHolders

\* outer supply 100 held 80/20, claim 50: 40 and 10, the first merged with a
\* direct manager holding of 5
LayeredExample ==
  /\ Returned
  /\ Layered
  /\ normLocals.vaultTotalSupply = 100
  /\ normLocals.vaultManagerShareBalance = 50
  /\ \E i \in 1..Len(normResult) :
       normResult[i].holder = "0xh1" /\ normResult[i].balance = 45
  /\ \E i \in 1..Len(normResult) :
       normResult[i].holder = "0xh2" /\ normResult[i].balance = 10

\* C10 as stated: the balance of a returned record of a simple topology is the
\* sum of the holder's non-zero raw balances of the share token, the reward
\* pools and the boosts, with one provenance entry for each of them.
C10_SimpleSumOfNonZeroBalances ==
  (Returned /\ ~Layered) =>
    \A i \in 1..Len(normResult) :
      /\ normResult[i].balance = SimpleBalance(normResult[i].holder, 0)
      /\ ProvenanceIs(normResult[i].hold_details,
                      HoldingsOf(normResult[i].holder, OuterTokens(normCall.config), 0))

\* What the simple branch returns: the same sum over the raw balances strictly
\* greater than the balance floor of the call only, with one provenance entry
\* for each counted balance.
SimpleSumAboveFloor ==
  (Returned /\ ~Layered) =>
    /\ \A i \in 1..Len(normResult) :
         /\ normResult[i].balance
              = SimpleBalance(normResult[i].holder, normCall.balanceGt)
         /\ ProvenanceIs(normResult[i].hold_details,
                         HoldingsOf(normResult[i].holder, OuterTokens(normCall.config),
                                    normCall.balanceGt))
    /\ \A k \in SourceHolders \ OperationalAddresses(normCall.config) :
         (SimpleBalance(k, normCall.balanceGt) # 0 /\ k # ZeroAddress)
           => k \in ResultHolders

\* share-token holders 600 and 400 with floor 0: two records, each with one
\* provenance entry for the share token
SimpleExample ==
  /\ Returned
  /\ ~Layered
  /\ normCall.balanceGt = 0
  /\ normResult =
       << [holder |-> "0xh1", balance |-> 600,
           hold_details |-> <<[token |-> "0xV", balance |-> 600]>>],
          [holder |-> "0xh2", balance |-> 400,
           hold_details |-> <<[token |-> "0xV", balance |-> 400]>>] >>

----------------------------------------------------------------------------
(* Conservation per constituent token                                      *)

\* the holdings that reach the result: the kept entries of the manager side
\* and of the converted outer side
KeptEntries ==
  SelectSeq(normLocals.managerShareHolders \o normLocals.vaultManagerHolders,
            LAMBDA e : e.holder \in ResultHolders /\ e.balance # 0)

\* the normalised balance that the holdings of token t contribute to the result
Contribution(t) ==
  SumBalances(SelectSeq(KeptEntries, LAMBDA e : ToLower(e.hold_details[1].token) = t))

\* the total supply of token t in the source: the balances of all its holders
\* but the zero address
SupplyOf(t) ==
  SumAmounts(SelectSeq(ReconstructedRows,
                       LAMBDA r : ToLower(r.token) = t /\ r.account # ZeroAddress))

ConstituentTokens ==
  OuterTokens(normCall.config)
    \cup (IF Layered THEN ManagerTokens(normCall.config) ELSE {})

\* the tokens whose balances are converted pro rata
ConvertedTokens == IF Layered THEN OuterTokens(normCall.config) ELSE {}

\* C11 as stated: for each constituent token, the normalised balances that its
\* holdings contribute to the result sum to at most the total supply of that
\* token in the same source.
C11_ContributionAtMostSupply ==
  Returned => \A t \in ConstituentTokens : Contribution(t) <= SupplyOf(t)

\* C11 amended: the contribution of a token that is not converted (every token
\* of a simple topology, the manager side of a layered one) is at most the
\* total supply of that token; the contribution of a converted token (the outer
\* share token, reward pools and boosts of a layered topology) is at most the
\* total supply of that token converted at the rate claim / supply of the call.
C11_ContributionAtMostConvertedSupply ==
  Returned =>
    /\ \A t \in ConstituentTokens \ ConvertedTokens : Contribution(t) <= SupplyOf(t)
    /\ \A t \in ConvertedTokens :
         Contribution(t) * normLocals.vaultTotalSupply
           <= SupplyOf(t) * normLocals.vaultManagerShareBalance

\* a layered result with contributions of the manager share token and of the
\* outer share token, the claim being larger than the outer supply
C11_Witness ==
  /\ Returned
  /\ Layered
  /\ normLocals.vaultManagerShareBalance > normLocals.vaultTotalSupply
  /\ Contribution(ToLower(normCall.config.vault_address)) > 0
  /\ Contribution(ToLower(normCall.config.beefy_clm_manager.vault_address)) > 0

----------------------------------------------------------------------------
(* The balance floor                                                       *)

\* the final total of holder k: all its raw balances, the outer ones converted
\* with the claim of the call and the supply of the source
FinalTotal(k) ==
  IF Layered THEN LayeredBalance(k, 0, normLocals.vaultManagerShareBalance, SourceSupply)
  ELSE SimpleBalance(k, 0)

NonExcludedHolders ==
  (SourceHolders \ OperationalAddresses(normCall.config)) \ {ZeroAddress}

\* C12: the returned records are exactly the non-excluded holders whose final
\* total is strictly greater than the balance floor of the call: every record
\* has a balance above the floor, and no such holder is missing.
C12_FloorOnFinalTotals ==
  Returned =>
    /\ \A i \in 1..Len(normResult) : normResult[i].balance > normCall.balanceGt
    /\ ResultHolders = {k \in NonExcludedHolders : FinalTotal(k) > normCall.balanceGt}

----------------------------------------------------------------------------
(* The aggregate claim                                                     *)

\* the tokens of the manager side in the order of the lookup
ManagerTokenSeq(config) ==
  <<config.beefy_clm_manager.vault_address>>
    \o config.beefy_clm_manager.reward_pools \o config.beefy_clm_manager.boosts

\* the balance of token t of the strategy of the outer vault, 0 if none
StrategyBalanceOf(t) ==
  LET rows == SelectSeq(ReconstructedRows,
                        LAMBDA r : /\ ToLower(r.token) = ToLower(t)
                                   /\ ToLower(r.account)
                                        = ToLower(normCall.config.strategy_address))
  IN IF rows = <<>> THEN 0 ELSE rows[1].amount

\* the first balance of the strategy above gt, over the tokens in their order
RECURSIVE FirstStrategyBalance(_, _)
FirstStrategyBalance(tokens, gt) ==
  IF tokens = <<>> THEN 0
  ELSE IF StrategyBalanceOf(Head(tokens)) > gt THEN StrategyBalanceOf(Head(tokens))
  ELSE FirstStrategyBalance(Tail(tokens), gt)

\* C13 as stated: the aggregate claim of the conversion is the balance of the
\* manager share token of the strategy of the outer vault, and 0 when the
\* strategy holds none of it, whatever it holds of the manager reward pools and
\* boosts.
C13_ClaimIsManagerShareBalance ==
  (Returned /\ Layered) => normLocals.vaultManagerShareBalance = SourceClaim

\* C13 amended: the aggregate claim is the first balance above the balance
\* floor that the strategy of the outer vault holds of the manager share token,
\* the manager reward pools and the manager boosts, in this order, and 0 when
\* it holds none; balances of several of these tokens are not added up.
C13_ClaimIsFirstStrategyBalance ==
  (Returned /\ Layered) =>
    normLocals.vaultManagerShareBalance
      = FirstStrategyBalance(ManagerTokenSeq(normCall.config), normCall.balanceGt)

\* the strategy holds the manager share token and a manager reward pool, and
\* the claim is converted for an outer holder
C13_Witness ==
  /\ Returned
  /\ Layered
  /\ StrategyBalanceOf(normCall.config.beefy_clm_manager.vault_address) > normCall.balanceGt
  /\ StrategyBalanceOf(normCall.config.beefy_clm_manager.reward_pools[1]) > normCall.balanceGt
  /\ normLocals.vaultManagerHolders # <<>>

\* C14: the divisor of the conversion is the sum of the raw balances of all
\* holders of the outer share token in the reconstructed table, operational
\* addresses included, whatever the balance floor of the call.
C14_SupplyIsSumOfAllBalances ==
  (Returned /\ Layered) => normLocals.vaultTotalSupply = SourceSupply

----------------------------------------------------------------------------
(* The entry points                                                        *)

\* the configurations of the registry that the identity of the call matches
MatchingConfigs ==
  {i \in 1..Len(Registry) :
     \/ normLookup.kind = "id" /\ Registry[i].id = normLookup.key
     \/ /\ normLookup.kind = "vault_address"
        /\ ToLower(Registry[i].vault_address) = ToLower(normLookup.key)
     \/ /\ normLookup.kind = "strategy_address"
        /\ ToLower(Registry[i].strategy_address) = ToLower(normLookup.key)}

\* C15: a call whose vault identity matches no configuration fails as not
\* found, one that matches several fails as not unique, both without a call of
\* the balance reconstruction and without a holder list; the reconstruction is
\* called only for exactly one match, with that configuration.
C15_UniqueTopology ==
  (normLookup.kind \in {"id", "vault_address", "strategy_address"} /\ normOutcome # "none") =>
    /\ Cardinality(MatchingConfigs) = 0 =>
         normOutcome = "NotFound" /\ normFetches = 0 /\ normResult = <<>>
    /\ Cardinality(MatchingConfigs) > 1 =>
         normOutcome = "NotUnique" /\ normFetches = 0 /\ normResult = <<>>
    /\ Cardinality(MatchingConfigs) = 1 =>
         /\ normFetches = 1
         /\ \A i \in MatchingConfigs : normCall.config = Registry[i]

\* a vault address shared by two configurations is refused while the source
\* holds balances of that vault
C15_Witness ==
  /\ normLookup.kind = "vault_address"
  /\ normOutcome = "NotUnique"
  /\ Cardinality(MatchingConfigs) = 2
  /\ \E r \in srcTokenBalance : r.token = "0xv" /\ r.account = "0xh1"

----------------------------------------------------------------------------
(* Token metadata                                                          *)

RequestedTokens == Range(normCall.tokenAddresses)

TokenRowsOf(t) == SelectSeq(ReconstructedTokens, LAMBDA r : ToLower(r.address) = t)

\* token t has no metadata row, or its row lacks the name, symbol or decimals
MissingMetadata(t) ==
  \/ TokenRowsOf(t) = <<>>
  \/ TokenRowsOf(t)[1].name = ""
  \/ TokenRowsOf(t)[1].symbol = ""
  \/ TokenRowsOf(t)[1].decimals = 0

\* the failures that name token t
MetadataFailuresOf(t) ==
  {"TokenNotFound:" \o t, "NoDecimals:" \o t,
   "NoSymbol:" \o getTokenId(t), "NoName:" \o getTokenId(t)}

IsMetadataFailure == \E t \in Range(LowerAll([i \in 1..Len(TokenRows) |-> TokenRows[i].address])) :
                       normOutcome \in MetadataFailuresOf(t)

\* token t has a non-zero balance that the call fetches
HasFetchedBalance(t) ==
  \E r \in Range(ReconstructedRows) : ToLower(r.token) = t /\ r.amount # 0

\* C16 as stated: no result is returned when a requested token lacks a metadata
\* row, a name, a symbol or decimals, and a metadata failure names such a token.
C16_MissingMetadataIsFatal ==
  /\ normOutcome = "returned" => \A t \in RequestedTokens : ~MissingMetadata(t)
  /\ IsMetadataFailure =>
       \E t \in RequestedTokens : MissingMetadata(t) /\ normOutcome \in MetadataFailuresOf(t)

\* what the normaliser does check: no holder list is returned when a requested
\* token that has a metadata row lacks its name or symbol, or when a requested
\* token with a non-zero fetched balance lacks its metadata row or its decimals;
\* a metadata failure names such a token.
C16_MissingMetadataOfHeldTokenIsFatal ==
  /\ normOutcome = "returned" =>
       \A t \in RequestedTokens :
         /\ TokenRowsOf(t) # <<>> =>
              TokenRowsOf(t)[1].name # "" /\ TokenRowsOf(t)[1].symbol # ""
         /\ HasFetchedBalance(t) => ~MissingMetadata(t)
  /\ IsMetadataFailure =>
       \E t \in RequestedTokens : MissingMetadata(t) /\ normOutcome \in MetadataFailuresOf(t)

\* the share token has a holder and no metadata row: the call fails and names it
C16_Witness ==
  /\ normOutcome = "TokenNotFound:0xv"
  /\ TokenRowsOf("0xv") = <<>>
  /\ \E r \in srcTokenBalance : r.token = "0xv" /\ r.account = "0xh1"

----------------------------------------------------------------------------
(* The account filter and the token set of the reconstruction              *)

\* C17: every call that reaches the source sends an account filter holding the
\* zero address, whatever exclusion list the caller gave, and no returned
\* mapping has a balance of the zero address.
C17_ZeroAddressAlwaysExcluded ==
  /\ (pc # "idle" /\ Len(req.tokenIn) > 0) =>
       getAccountId(ZeroAddress) \in Range(req.accountNotIn)
  /\ pc = "done" => \A k \in DOMAIN balances : k[2] # getAccountId(ZeroAddress)

\* C18: a request with an empty token list ends as a failure naming the
\* missing token addresses; it sends neither the snapshot lookup nor any page
\* request, receives nothing from the source and returns no mapping.
C18_EmptyTokenSetRejected ==
  (pc # "idle" /\ req.tokenIn = <<>>) =>
    /\ pc = "failed"
    /\ outcome = "NoTokenAddresses"
    /\ pg = PgStart
    /\ lastSnapshotRes = [TokenBalanceSnapshot |-> <<>>, progressBlock |-> 0]
    /\ tokenMetadata = <<>>
    /\ balanceSnapshots = <<>>
    /\ changesMerged = <<>>
    /\ balances = EmptyBalances

\* an empty token list rejected although the source has a snapshot at or
\* before the target block and has indexed up to it
C18_Witness ==
  /\ pc = "failed"
  /\ outcome = "NoTokenAddresses"
  /\ req.tokenIn = <<>>
  /\ ~NoSnapshotAtOrBefore
  /\ ~IndexerBehind

----------------------------------------------------------------------------
(* paginate                                                                *)

PagReturned == pagPc = "returned"

\* the page that the i-th request of the call asks of the source
FetchedPage(i) == PageOfCall(pagCall, pagLog[i].offset, pagLog[i].limit)

\* the count that governs the continuation after the i-th page
GoverningCount(i) ==
  IF pagCall.count = "number" THEN Len(FetchedPage(i)[1])
  ELSE IF \E j \in DOMAIN pagCall.source : Len(FetchedPage(i)[j]) > 0
       THEN CHOOSE n \in {Len(FetchedPage(i)[j]) : j \in DOMAIN pagCall.source} :
              \A j \in DOMAIN pagCall.source : Len(FetchedPage(i)[j]) <= n
       ELSE IF pagCall.source = <<>> THEN NegInfinity ELSE 0

\* the rows of list j in the pages requested from the i-th request on
RECURSIVE RowsFetchedFrom(_, _)
RowsFetchedFrom(j, i) ==
  IF i > Len(pagLog) THEN <<>>
  ELSE FetchedPage(i)[j] \o RowsFetchedFrom(j, i + 1)

\* the rows of the source that govern the paging
GoverningRows ==
  IF pagCall.count = "number" THEN Len(pagCall.source[1])
  ELSE IF pagCall.source = <<>> THEN 0
       ELSE CHOOSE n \in {Len(pagCall.source[j]) : j \in DOMAIN pagCall.source} :
              \A j \in DOMAIN pagCall.source : Len(pagCall.source[j]) <= n

RECURSIVE SumGoverningCounts(_)
SumGoverningCounts(i) ==
  IF i = 0 THEN 0 ELSE SumGoverningCounts(i - 1) + GoverningCount(i)

\* the value returned is the fold of the pages fetched, in the order fetched
FoldOfFetchedPages ==
  /\ Len(pagLocals.results) = Len(pagLog)
  /\ \A i \in 1..Len(pagLog) : pagLocals.results[i] = FetchedPage(i)
  /\ pagRes = [j \in DOMAIN pagCall.source |->
                 IF j = 1 THEN RowsFetchedFrom(j, 1) ELSE FetchedPage(1)[j]]

\* below the ceiling every row of the list that the merge concatenates is
\* returned once, in the order of the source
CompleteBelowCeiling ==
  (~pagCall.endless /\ GoverningRows < pagCall.fetchAtMost /\ pagCall.source # <<>>) =>
    pagRes[1] = pagCall.source[1]

\* C19 as stated: paginate returns the fold of the pages it fetched, the last
\* of them being the first page with a governing count below the page size,
\* and all rows of a source below the ceiling.
C19_FoldEndsAtFirstShortPage ==
  PagReturned =>
    /\ FoldOfFetchedPages
    /\ \A i \in 1..(Len(pagLog) - 1) : GoverningCount(i) >= pagCall.pageSize
    /\ GoverningCount(Len(pagLog)) < pagCall.pageSize
    /\ CompleteBelowCeiling

\* C19 amended: the last page fetched is the first page with a governing count
\* below the page size or, when the ceiling comes first, the full page with
\* which the counts of the pages fetched reach the ceiling.
C19_FoldEndsAtShortPageOrCeiling ==
  PagReturned =>
    /\ FoldOfFetchedPages
    /\ \A i \in 1..(Len(pagLog) - 1) :
         /\ GoverningCount(i) >= pagCall.pageSize
         /\ SumGoverningCounts(i) < pagCall.fetchAtMost
    /\ \/ GoverningCount(Len(pagLog)) < pagCall.pageSize
       \/ SumGoverningCounts(Len(pagLog)) >= pagCall.fetchAtMost
    /\ CompleteBelowCeiling

\* three pages of two rows and a short one folded into all rows of the source
C19_Witness ==
  /\ PagReturned
  /\ pagCall.pageSize = 2
  /\ Len(pagLog) = 3
  /\ GoverningRows < pagCall.fetchAtMost
  /\ Len(pagRes[1]) = 4
  /\ pagRes[1] = pagCall.source[1]

\* C20: a call of paginate that ends with no page collected has thrown and
\* has returned no value.
C20_NoPagesThrows ==
  (pagPc \in {"returned", "threw", "rejected"} /\ Len(pagLocals.results) = 0) =>
    /\ pagPc # "returned"
    /\ pagRes = <<>>
    /\ pagLog = <<>> => pagPc = "threw"

\* the ceiling keeps the loop from being entered: no page, the call throws
C20_Witness ==
  /\ pagPc = "threw"
  /\ pagLog = <<>>
  /\ pagCall.fetchAtMost = 0
  /\ pagCall.source # <<>>
  /\ Len(pagCall.source[1]) > 0

----------------------------------------------------------------------------
(* Failures of the source                                                  *)

callVars == <<pc, req, rejected, lastSnapshotRes, tokenMetadata, lastSnapshotBlock,
              balanceSnapshots, changesMerged, balances, outcome>>

\* C21: a rejected request to the source (the snapshot lookup or a page of
\* the metadata, the snapshot rows or the changes) is the outcome of the call
\* at once; from then on the call sends no request and returns no mapping:
\* nothing of the call changes any more. A paginate whose page was rejected
\* fetches no further page; the only pages fetched after the failure are those
\* of the metadata paginate that was started together with a rejected lookup.
C21_NoRetryNoPartial ==
  /\ [](outcome = "SourceError" => pc = "failed" /\ rejected # "none")
  /\ [][outcome = "SourceError" => UNCHANGED callVars]_vars
  /\ [][outcome = "SourceError" /\ pg' # pg =>
          /\ rejected = "lookup"
          /\ lastSnapshotBlock = 0
          /\ ~pg.finished
          /\ pg'.offset >= pg.offset
          /\ Len(pg'.results) = Len(pg.results) + 1]_vars

\* the call failed on a page of changes after the mapping was seeded from a
\* non-empty snapshot and a first page of changes had been fetched
C21_Witness ==
  /\ pc = "failed"
  /\ outcome = "SourceError"
  /\ balanceSnapshots # <<>>
  /\ Len(pg.results) > 0
  /\ lastSnapshotBlock > 0

----------------------------------------------------------------------------
(* Repeated calls                                                          *)

\* the same configuration, balance floor and target block, and the same source:
\* the rows, the block of the last change of each, the metadata and the progress
\* that the source had at the last request of either call, the source not having
\* changed while the call made its requests
SameInputs(a, b) ==
  /\ a.config = b.config
  /\ a.balanceGt = b.balanceGt
  /\ a.targetBlock = b.targetBlock
  /\ a.moved = 0 /\ b.moved = 0
  /\ a.seen = b.seen

----------------------------------------------------------------------------
(* One record per holder                                                   *)

\* the tokens of the outer side in the order in which their holders are listed
OuterTokenSeq(config) == <<config.vault_address>> \o config.reward_pools \o config.boosts

\* all constituent tokens in the order in which their holdings are merged
MergeTokenSeq(config) ==
  (IF IsClm(config) THEN ManagerTokenSeq(config) ELSE <<>>) \o OuterTokenSeq(config)

\* a holding of the source takes part in the merge: it is above the floor of
\* the call and, if it is converted, its converted balance is not zero
IsMerged(r) ==
  /\ r.amount # 0
  /\ r.amount > normCall.balanceGt
  /\ (Layered /\ ToLower(r.token) \in OuterTokens(normCall.config)) =>
       /\ normLocals.vaultTotalSupply # 0
       /\ (r.amount * normLocals.vaultManagerShareBalance)
            \div normLocals.vaultTotalSupply # 0

\* the provenance entries of the merged holdings of holder k, token by token
RECURSIVE MergedProvenance(_, _)
MergedProvenance(k, tokens) ==
  IF tokens = <<>> THEN <<>>
  ELSE LET rows == SelectSeq(ReconstructedRows,
                             LAMBDA r : /\ ToLower(r.token) = ToLower(Head(tokens))
                                        /\ ToLower(r.account) = k
                                        /\ IsMerged(r))
       IN [i \in 1..Len(rows) |-> [token |-> Head(tokens), balance |-> rows[i].amount]]
            \o MergedProvenance(k, Tail(tokens))

\* C23: no two returned records have the same holder compared in lower case,
\* and the provenance list of each record is the concatenation of the provenance
\* entries of all merged holdings of that account, whatever the letter case of
\* the account in the source and whatever the constituent token.
C23_OneRecordPerHolder ==
  Returned =>
    /\ \A i, j \in 1..Len(normResult) :
         i # j => ToLower(normResult[i].holder) # ToLower(normResult[j].holder)
    /\ \A i \in 1..Len(normResult) :
         normResult[i].hold_details
           = MergedProvenance(ToLower(normResult[i].holder), MergeTokenSeq(normCall.config))

\* one record merges holdings that the source reports for two tokens under
\* two spellings of the account
C23_Witness ==
  /\ Returned
  /\ \E i \in 1..Len(normResult) :
       /\ Len(normResult[i].hold_details) >= 2
       /\ \E r1, r2 \in srcTokenBalance :
            /\ r1.account # r2.account
            /\ r1.token # r2.token
            /\ ToLower(r1.account) = normResult[i].holder
            /\ ToLower(r2.account) = normResult[i].holder
            /\ IsMerged(r1) /\ IsMerged(r2)
            /\ normResult[i].balance >= r1.amount + r2.amount

----------------------------------------------------------------------------
(* The order of the page requests                                          *)

\* page requests issued and not yet answered or rejected
InFlight ==
  Len(pagLog) - Len(pagLocals.results) - (IF pagPc = "rejected" THEN 1 ELSE 0)

\* C24: at any time at most one page request of the call is unanswered; a
\* request is issued only when every earlier one has been answered, and the
\* k-th request (k = 0, 1, 2, ...) asks for offset k * pageSize with limit
\* pageSize.
C24_SequentialPaging ==
  /\ [](/\ InFlight = (IF pagPc = "fetching" THEN 1 ELSE 0)
        /\ \A k \in 1..Len(pagLog) :
             pagLog[k] = [offset |-> (k - 1) * pagCall.pageSize,
                          limit |-> pagCall.pageSize])
  /\ [][Len(pagLog') # Len(pagLog) =>
          /\ Len(pagLog') = Len(pagLog) + 1
          /\ Len(pagLocals'.results) = Len(pagLog)
          /\ pagPc' = "fetching"]_vars

\* the third request of a call waits for its answer, at offset 4
C24_Witness ==
  /\ pagPc = "fetching"
  /\ Len(pagLog) = 3
  /\ pagCall.pageSize = 2
  /\ pagLog[3].offset = 4
  /\ Len(pagLocals.results) = 2

----------------------------------------------------------------------------
(* Several count signals                                                   *)

\* the signals of the i-th page: the lengths of its lists
Signals(i) == [j \in DOMAIN pagLocals.results[i] |-> Len(pagLocals.results[i][j])]

\* C25: with a count function that returns several signals, a further page is
\* requested after a page if and only if one of its signals is at least the
\* page size and the counts fetched so far are below the ceiling; a page
\* without signals or with all signals zero is the last one.
C25_MaximumGoverns ==
  (pagCall.count = "array" /\ pagPc \in {"returned", "threw"}) =>
    \A i \in 1..Len(pagLocals.results) :
      /\ (i < Len(pagLog)) <=>
           /\ \E j \in DOMAIN Signals(i) : Signals(i)[j] >= pagCall.pageSize
           /\ SumGoverningCounts(i) < pagCall.fetchAtMost
      /\ (\A j \in DOMAIN Signals(i) : Signals(i)[j] = 0) => i = Len(pagLog)

\* a page whose first list is short and whose second list is full was
\* followed by another page
C25_Witness ==
  /\ pagCall.count = "array"
  /\ pagPc = "returned"
  /\ Len(pagLog) >= 2
  /\ Len(pagCall.source) = 2
  /\ Signals(1)[1] < pagCall.pageSize
  /\ Signals(1)[1] > 0
  /\ Signals(1)[2] = pagCall.pageSize

----------------------------------------------------------------------------
(* The fetch ceiling                                                       *)

\* the sum of the governing counts of the full pages among the first n pages
RECURSIVE FullPagesSum(_)
FullPagesSum(n) ==
  IF n = 0 THEN 0
  ELSE FullPagesSum(n - 1)
         + (IF GoverningCount(n) >= pagCall.pageSize THEN GoverningCount(n) ELSE 0)

\* every request was issued while the full pages before it summed below the
\* ceiling, and the pause before a request that the ceiling forbids ends the
\* call
IssuedBelowCeiling ==
  /\ [](\A k \in 1..Len(pagLog) : FullPagesSum(k - 1) < pagCall.fetchAtMost)
  /\ [][(pagPc = "delay" /\ FullPagesSum(Len(pagLog)) >= pagCall.fetchAtMost)
          => pagPc' = "returned"]_vars

AtCeiling ==
  /\ pagPc \notin {"idle", "fetching", "rejected"}
  /\ FullPagesSum(Len(pagLog)) >= pagCall.fetchAtMost

\* C26 as stated: requests are issued only below the ceiling, and a call that
\* is at the ceiling requests nothing more and returns the merge of the pages
\* it fetched.
C26_CeilingReturnsMerge ==
  /\ IssuedBelowCeiling
  /\ [](AtCeiling => /\ pagPc \in {"delay", "returned"}
                     /\ pagPc = "returned" => FoldOfFetchedPages)

\* C26 amended: a call at the ceiling returns the merge of the pages it
\* fetched if it fetched any; with a ceiling of zero or less it is at the
\* ceiling before the first request and throws.
C26_CeilingReturnsMergeOrThrows ==
  /\ IssuedBelowCeiling
  /\ [](AtCeiling => /\ pagPc \in {"delay", "returned", "threw"}
                     /\ pagPc = "threw" <=> Len(pagLog) = 0
                     /\ pagPc = "returned" => FoldOfFetchedPages)

\* two full pages reached the ceiling and were returned while the source
\* holds more rows
C26_Witness ==
  /\ pagPc = "returned"
  /\ pagCall.count = "number"
  /\ Len(pagLog) = 2
  /\ FullPagesSum(2) = pagCall.fetchAtMost
  /\ Len(pagRes[1]) < Len(pagCall.source[1])

----------------------------------------------------------------------------
(* Termination of paginate                                                 *)

PagEnded == pagPc \in {"returned", "threw", "rejected"}

\* C27: a call of paginate with a positive page size whose requests are all
\* answered comes to an end: it returns, throws, or fails with a rejected
\* request; when it returns, its last page is short or the ceiling is
\* reached, also on a source that has a full page at every offset.
C27_PagingTerminates ==
  /\ (pagPc \in {"fetching", "delay"}) ~> PagEnded
  /\ [](pagPc = "returned" =>
          \/ GoverningCount(Len(pagLog)) < pagCall.pageSize
          \/ FullPagesSum(Len(pagLog)) >= pagCall.fetchAtMost)

\* a call on a source without end returned at the ceiling after several
\* full pages and pauses
C27_Witness ==
  /\ pagPc = "returned"
  /\ pagCall.endless
  /\ pagCall.delay > 0
  /\ Len(pagLog) >= 3
  /\ FullPagesSum(Len(pagLog)) >= pagCall.fetchAtMost

----------------------------------------------------------------------------
(* The order of seed and replay                                            *)

KeyOf(row) == <<ToLower(row.token_id), ToLower(row.account_id)>>

SeedKeys == {KeyOf(balanceSnapshots[i]) : i \in 1..Len(balanceSnapshots)}

ChangeKeys == {KeyOf(changesMerged[i]) : i \in 1..Len(changesMerged)}

\* the amount of the last snapshot row of key k
SeedOf(k) ==
  LET rows == SelectSeq(balanceSnapshots, LAMBDA r : KeyOf(r) = k)
  IN rows[Len(rows)].amount

RECURSIVE AddDeltas(_, _)
AddDeltas(acc, changes) ==
  IF changes = <<>> THEN acc
  ELSE AddDeltas(plus(acc, minus(Head(changes).balanceAfter, Head(changes).balanceBefore)),
                 Tail(changes))

\* the seed of key k (zero without one) with the deltas of k added in order
SeedPlusDeltas(k) ==
  AddDeltas(IF k \in SeedKeys THEN SeedOf(k) ELSE DZero,
            SelectSeq(changesMerged, LAMBDA c : KeyOf(c) = k))

\* C28: until the snapshot rows are all fetched the mapping is empty and no
\* change has been fetched; while the changes are fetched the snapshot block is
\* known and the mapping holds exactly the snapshot rows; the returned mapping
\* holds for every key its snapshot value plus its deltas, and the mapping is
\* written only by the seeding and, after it, by the replay.
C28_SeedBeforeReplay ==
  /\ [](/\ pc \in {"idle", "lookup", "meta", "snap"} =>
             balances = EmptyBalances /\ changesMerged = <<>>
        /\ pc = "changes" =>
             /\ lastSnapshotRes.TokenBalanceSnapshot # <<>>
             /\ lastSnapshotBlock = lastSnapshotRes.TokenBalanceSnapshot[1].blockNumber
             /\ changesMerged = <<>>
             /\ DOMAIN balances = SeedKeys
             /\ \A k \in SeedKeys : balances[k] = SeedOf(k)
        /\ pc = "done" =>
             /\ DOMAIN balances = SeedKeys \cup ChangeKeys
             /\ \A k \in DOMAIN balances : balances[k] = SeedPlusDeltas(k))
  /\ [][balances' # balances =>
          \/ pc = "snap" /\ pc' = "changes"
          \/ pc = "changes" /\ pc' = "done"]_vars

\* a returned balance is a snapshot value with a non-zero delta added
C28_Witness ==
  /\ pc = "done"
  /\ \E k \in SeedKeys \cap ChangeKeys :
       /\ SeedOf(k) # DZero
       /\ balances[k] # SeedOf(k)
       /\ balances[k] = SeedPlusDeltas(k)

----------------------------------------------------------------------------
(* Arithmetic of the conversion                                            *)

\* C29: a call of the normaliser for a layered topology never ends with a
\* division by zero: once the balance table is reconstructed and its metadata
\* is complete, the call returns a holder list, also when the summed supply of
\* the outer share token is zero while holders of the outer reward pools or
\* boosts exist.
C29_LayeredConversionNeverDividesByZero ==
  (normOutcome # "none" /\ IsClm(normCall.config)) => normOutcome # "RangeError"

----------------------------------------------------------------------------
(* The keys of the cache                                                   *)

\* C30: a request that is answered is answered with the value of its own
\* computation, from the cache or not: a bundle-holder-share reply is never the
\* value of getVaultHolders kept by a share-tokens-balances request, and a
\* configuration request without include_eol=true is never answered with the
\* vaults selected for include_eol=true.
C30_CacheKeysSeparateComputations ==
  httpReply.code = 200 =>
    httpReply.body = SendBody(httpReply.route, OwnResult(httpReply.route, httpReply.params))

====
